---- MODULE Spec2Model ----
(***************************************************************************)
(* obsidian-git-livesync: one-way synchronisation of a vault directory     *)
(* into a CouchDB database in the LiveSync document format.                *)
(*                                                                         *)
(* The model covers the CouchDB client (couchdb-client.ts), the sync       *)
(* engine (sync.ts) and the file watcher (watch.ts).  JavaScript is        *)
(* single-threaded: a call runs without interruption up to its next await, *)
(* and every await in this code is one HTTP request to the store.  An      *)
(* action of a call is therefore one store request together with the       *)
(* synchronous code that follows its response (which reads only the disk   *)
(* and the call's own locals), up to the next request.                     *)
(***************************************************************************)
EXTENDS Integers, Sequences, FiniteSets, TLC

VARIABLES
  disk,        \* the vault directory: path -> file state
  db,          \* the CouchDB database: document id -> document
  tasks,       \* the calls of a behaviour, in call order: frame of syncFiles / deleteFile
  diskOps,     \* number of changes made to the vault so far
  outages,     \* number of requests that did not get through to the store so far
  watcher,     \* watchVault's closure: the config it was started with, or not watching
  timers,      \* the runtime's armed timeouts
  pendingChanges, \* watchVault's map: path -> its pending timeout
  clock,       \* the time, in units of 100 ms
  journal,     \* history: per path, the file-system events delivered so far
  dispatched,  \* history: the actions the watcher has dispatched, in order
  env          \* what the command was started in: options, environment variables,
               \* config file, git diff, directory tree (read-only)

wvars == <<watcher, timers, pendingChanges, clock, journal, dispatched, env>>
vars == <<disk, db, tasks, diskOps, outages, watcher, timers, pendingChanges, clock,
          journal, dispatched, env>>

(***************************************************************************)
(* Bounds of the model.                                                    *)
(***************************************************************************)
MaxCalls == 2      \* entry-point calls in one behaviour (they may overlap)
MaxDiskOps == 1    \* changes to the vault in one behaviour
MaxOutages == 1    \* requests to the store that fail in transport in one behaviour
MaxTime == 4       \* the clock stops here
DebounceTicks == 2   \* config.debounce, in units of 100 ms (the default, 200 ms)
MaxBurst == 2      \* file-system events in one burst on one path

Calls == 1..MaxCalls
Paths == {"a.md", "b.md"}       \* vault-relative paths
WatchPaths == Paths \cup {"c.png"}   \* paths the file watcher reports events on
\* file contents as sequences of code points: "" and one 3-byte character
Contents == {<<>>, <<26085>>}
\* what statSync reports: the two stamps differ in both fields, in both directions
FirstStamp == [ctimeMs |-> 1, mtimeMs |-> 2]
Stamps == {FirstStamp, [ctimeMs |-> 2, mtimeMs |-> 1]}
Times == {1, 2}                 \* values of Date.now()

\* the batches handed to syncFiles: one path, or both
Batches == {<<p>> : p \in Paths} \cup {<<"a.md", "b.md">>}
\* the Config objects handed to the entry points (the fields the core reads)
Configs == [dryRun : BOOLEAN, extensions : {{".md"}}, debounce : {DebounceTicks}]

(***************************************************************************)
(* ChunkAddressing.                                                        *)
(***************************************************************************)
\* The first 40 hex digits of SHA-256 of the UTF-8 encoding, tabulated for the
\* contents of the model (the digests are the real ones).
sha256hex40(content) ==
  CASE content = <<>>      -> "e3b0c44298fc1c149afbf4c8996fb92427ae41e4"
    [] content = <<26085>> -> "85217f7aff77841438439fb3e7cf37bb3062fb02"
    [] content = <<104, 105>> -> "8f434346648f6b96df89dda901c5176b10a6d839"
    [] content = <<233>> -> "4a99557e4033c3539de2eb65472017cad5f9557f"
    [] content = <<127800>> -> "586f3aa88306d52a3f3822463f187e297926a24b"
    [] content = <<12371, 12435, 12395, 12385, 12399>> ->
         "125aeadf27b0459b8760c13a3d80912dfa8a81a6"

\* a chunk id of the length of the content only
chunkIdOfLength(content) ==
  "h:" \o sha256hex40(IF Len(content) = 0 THEN <<>>
                      ELSE IF Len(content) = 1 THEN <<233>> ELSE <<104, 105>>)

\* a chunk id that does not depend on the content
chunkIdOfNothing(content) == "h:" \o sha256hex40(<<>>)

chunkId(content) == "h:" \o sha256hex40(content)

ChunkIds == {chunkId(c) : c \in Contents}
DocIds == Paths \cup ChunkIds

\* Bytes of one code point in UTF-8.
utf8Width(cp) ==
  IF cp < 128 THEN 1 ELSE IF cp < 2048 THEN 2 ELSE IF cp < 65536 THEN 3 ELSE 4

\* the length of the string
charCount(content) == Len(content)

\* Buffer.byteLength(content, "utf8")
RECURSIVE byteLength(_)
byteLength(content) ==
  IF content = <<>> THEN 0
  ELSE utf8Width(Head(content)) + byteLength(Tail(content))

(***************************************************************************)
(* The store.  A document that does not exist keeps the generation of its  *)
(* last revision (0: never existed; otherwise the tombstone's), so that a  *)
(* revision token is never issued twice for one id.                        *)
(***************************************************************************)
NoRev == 0
NoTime == 0

Missing(gen) == [type |-> "none", rev |-> gen]

\* get(id): 404 becomes null
IsNull(doc) == doc.type = "none"

\* The store's optimistic-concurrency rule for PUT and DELETE: the submitted
\* revision must be the current one; a document that does not exist accepts
\* only a write without revision.
StoreAccepts(store, id, rev) ==
  IF IsNull(store[id]) THEN rev = NoRev ELSE rev = store[id].rev

\* The database after an accepted PUT of doc (doc.rev is the submitted revision).
StorePut(store, id, doc) ==
  [store EXCEPT ![id] = [doc EXCEPT !.rev = store[id].rev + 1]]

\* The database after an accepted DELETE: a tombstone of the next generation.
StoreDelete(store, id) ==
  [store EXCEPT ![id] = Missing(store[id].rev + 1)]

(***************************************************************************)
(* CouchDBClient.  A request either reaches the store ("ok") or fails in   *)
(* transport or with a 5xx status ("unavailable"); both make the client    *)
(* throw.  Each operator returns [ok, db, error]: whether the call         *)
(* returned, the database afterwards, and the message thrown otherwise.    *)
(***************************************************************************)
Responses == {"ok", "unavailable"}

Returned(store) == [ok |-> TRUE, db |-> store, error |-> ""]
Threw(store, message) == [ok |-> FALSE, db |-> store, error |-> message]

get(store, id, resp) ==
  IF resp = "ok" THEN Returned(store) ELSE Threw(store, "get failed")

\* put that does not look at res.ok
putUnchecked(store, id, doc, resp) ==
  IF resp # "ok" THEN Threw(store, "put failed")
  ELSE IF ~StoreAccepts(store, id, doc.rev) THEN Returned(store)
  ELSE Returned(StorePut(store, id, doc))

\* put that overwrites whatever is stored
putOverwrite(store, id, doc, resp) ==
  IF resp # "ok" THEN Threw(store, "put failed")
  ELSE Returned(StorePut(store, id, doc))

\* put whose request is applied by the store although the client throws
putApplied(store, id, doc, resp) ==
  IF ~StoreAccepts(store, id, doc.rev) THEN Threw(store, "put failed: 409 Conflict")
  ELSE IF resp # "ok" THEN Threw(StorePut(store, id, doc), "put failed")
  ELSE Returned(StorePut(store, id, doc))

put(store, id, doc, resp) ==
  IF resp # "ok" THEN Threw(store, "put failed")
  ELSE IF ~StoreAccepts(store, id, doc.rev) THEN Threw(store, "put failed: 409 Conflict")
  ELSE Returned(StorePut(store, id, doc))

delete(store, id, rev, resp) ==
  IF resp # "ok" THEN Threw(store, "delete failed")
  ELSE IF IsNull(store[id]) THEN Threw(store, "delete failed: 404 Not Found")
  ELSE IF ~StoreAccepts(store, id, rev) THEN Threw(store, "delete failed: 409 Conflict")
  ELSE Returned(StoreDelete(store, id))

\* a leaf that does not carry the content
leafDocNoData(content) == [type |-> "leaf", rev |-> NoRev, data |-> <<>>]

\* writeFile: the leaf and the metadata document it puts
leafDoc(content) == [type |-> "leaf", rev |-> NoRev, data |-> content]
\* a ctime that is the time of the write
writeFileCtimeNow(optCtime, existingMeta, now) == now

\* ctime = options?.ctime ?? existingMeta?.ctime ?? now
writeFileCtime(optCtime, existingMeta, now) ==
  IF optCtime # NoTime THEN optCtime
  ELSE IF ~IsNull(existingMeta) THEN existingMeta.ctime
  ELSE now

\* mtime = options?.mtime ?? now
writeFileMtime(optMtime, now) == IF optMtime # NoTime THEN optMtime ELSE now

metaDoc(path, content, leafId, ctime, mtime, existingMeta) ==
  [type |-> "plain", path |-> path, children |-> <<leafId>>,
   ctime |-> ctime, mtime |-> mtime, size |-> byteLength(content),
   rev |-> IF IsNull(existingMeta) THEN NoRev ELSE existingMeta.rev]

\* readFile: null without metadata document, throws on a missing chunk,
\* else the chunks' data joined in children order
RECURSIVE joinChunks(_, _)
joinChunks(store, children) ==
  IF children = <<>> THEN <<>>
  ELSE store[Head(children)].data \o joinChunks(store, Tail(children))

readFile(store, path) ==
  IF IsNull(store[path]) THEN [kind |-> "null"]
  ELSE IF \E n \in 1..Len(store[path].children) : IsNull(store[store[path].children[n]])
       THEN [kind |-> "throw"]
  ELSE [kind |-> "content", content |-> joinChunks(store, store[path].children)]

(***************************************************************************)
(* The vault.                                                              *)
(***************************************************************************)
Absent == [kind |-> "absent"]
\* exists, but statSync / readFileSync throw (a directory, no permission)
Unreadable == [kind |-> "unreadable"]
File(content, stat) ==
  [kind |-> "file", content |-> content, ctimeMs |-> stat.ctimeMs, mtimeMs |-> stat.mtimeMs]

\* the states of a path: with one stamp for the study of the engine, with every
\* stamp (and no unreadable file) for the study of the timestamps
DiskStates == {Absent, Unreadable} \cup {File(c, FirstStamp) : c \in Contents}
StampedDiskStates == {Absent} \cup {File(c, st) : c \in Contents, st \in Stamps}

existsSync(d, path) == d[path].kind # "absent"

(***************************************************************************)
(* Call frames.  A frame holds the arguments, the position and the locals  *)
(* of one call, and the value it returns.  seen and faulted are history:   *)
(* what the call found on disk at each path, and the batch indices at      *)
(* which an operation threw.                                               *)
(***************************************************************************)
EmptyResult == [synced |-> <<>>, deleted |-> <<>>, errors |-> <<>>]

\* The locals of a frame between two paths of a batch.
NoLocals ==
  [content |-> <<>>, ctimeMs |-> NoTime, mtimeMs |-> NoTime,
   existingMeta |-> Missing(0), leafId |-> "", chunks |-> <<>>]

IdleFrame ==
  [op |-> "idle", pc |-> "idle", paths |-> <<>>, delete |-> FALSE, dryRun |-> FALSE, i |-> 1,
   locals |-> NoLocals, result |-> EmptyResult, ret |-> "none",
   seen |-> <<>>, faulted |-> {}]

filePath(t) == t.paths[t.i]

pushSynced(t) ==
  [t EXCEPT !.result.synced = Append(@, filePath(t)), !.i = @ + 1, !.locals = NoLocals]
pushDeleted(t) ==
  [t EXCEPT !.result.deleted = Append(@, filePath(t)), !.i = @ + 1, !.locals = NoLocals]
\* a skip that reports the path as deleted
skipPathDeleted(t) ==
  [t EXCEPT !.result.deleted = Append(@, filePath(t)), !.i = @ + 1, !.locals = NoLocals]

skipPath(t) ==
  [t EXCEPT !.i = @ + 1, !.locals = NoLocals]

\* a catch block that records the failure and leaves the loop
catchErrorAbort(t, message) ==
  [t EXCEPT !.result.errors = Append(@, [path |-> filePath(t), error |-> message]),
            !.i = Len(t.paths) + 1, !.locals = NoLocals]

\* syncFiles' catch block: record the failure and go on with the next path
catchError(t, message) ==
  [t EXCEPT !.result.errors = Append(@, [path |-> filePath(t), error |-> message]),
            !.i = @ + 1, !.locals = NoLocals]

noteSeen(t, d) == [t EXCEPT !.seen = Append(@, d[filePath(t)].kind)]
noteFault(t) == [t EXCEPT !.faulted = @ \cup {t.i}]

(***************************************************************************)
(* syncFiles: the synchronous part of the loop, from the head of the       *)
(* iteration for paths[i] to the first request to the store (or to the     *)
(* return of the result).                                                  *)
(***************************************************************************)
RECURSIVE syncFilesLoop(_, _)
syncFilesLoop(t, d) ==
  IF t.i > Len(t.paths) THEN [t EXCEPT !.pc = "done"]
  ELSE IF ~existsSync(d, filePath(t)) THEN
    IF t.delete THEN
      IF t.dryRun THEN syncFilesLoop(pushDeleted(noteSeen(t, d)), d)
      ELSE [noteSeen(t, d) EXCEPT !.pc = "delete_get"]
    ELSE syncFilesLoop(skipPath(noteSeen(t, d)), d)
  ELSE IF d[filePath(t)].kind = "unreadable" THEN
    syncFilesLoop(catchError(noteFault(noteSeen(t, d)), "EISDIR"), d)
  ELSE IF t.dryRun THEN syncFilesLoop(pushSynced(noteSeen(t, d)), d)
  ELSE [noteSeen(t, d) EXCEPT
          !.pc = "write_get_meta",
          !.locals = [NoLocals EXCEPT !.content = d[filePath(t)].content,
                                      !.ctimeMs = d[filePath(t)].ctimeMs,
                                      !.mtimeMs = d[filePath(t)].mtimeMs]]

syncFiles(paths, cfg, del, d) ==
  syncFilesLoop([IdleFrame EXCEPT !.op = "syncFiles", !.paths = paths, !.delete = del,
                                   !.dryRun = cfg.dryRun], d)

\* a catch block that reports the path as synced as well
syncFilesCatchSynced(t, message, d) ==
  syncFilesLoop(catchError(noteFault([t EXCEPT !.result.synced = Append(@, filePath(t))]),
                           message), d)

\* a request of the call threw: into the catch block, then on with the loop
syncFilesCatch(t, message, d) ==
  syncFilesLoop(catchError(noteFault(t), message), d)

\* a delete branch that reports the path as deleted when no record was found
syncFilesGotExistingPush(t, store, d) ==
  IF ~IsNull(store[filePath(t)])
  THEN [t EXCEPT !.locals.existingMeta = store[filePath(t)], !.pc = "delete_delete"]
  ELSE syncFilesLoop(pushDeleted(t), d)

\* existing = await client.get(filePath): delete it if it is there, else skip
syncFilesGotExisting(t, store, d) ==
  IF ~IsNull(store[filePath(t)])
  THEN [t EXCEPT !.locals.existingMeta = store[filePath(t)], !.pc = "delete_delete"]
  ELSE syncFilesLoop(skipPath(t), d)

(***************************************************************************)
(* writeFile, between its requests.                                        *)
(***************************************************************************)
\* existingMeta = await get(path); leafId = chunkId(content)
writeFileGotMeta(t, store) ==
  [t EXCEPT !.locals.existingMeta = store[filePath(t)],
            !.locals.leafId = chunkId(t.locals.content),
            !.pc = "write_get_leaf"]

\* writeFile that takes the leaf to be there
writeFileGotLeafSkip(t, store) == [t EXCEPT !.pc = "write_put_meta"]

\* existingLeaf = await get(leafId); if (!existingLeaf) put the leaf
writeFileGotLeaf(t, store) ==
  [t EXCEPT !.pc = IF IsNull(store[t.locals.leafId])
                   THEN "write_put_leaf" ELSE "write_put_meta"]

writeFilePutLeaf(t) == [t EXCEPT !.pc = "write_put_meta"]

writeFileMetaDoc(t, now) ==
  metaDoc(filePath(t), t.locals.content, t.locals.leafId,
          writeFileCtime(t.locals.ctimeMs, t.locals.existingMeta, now),
          writeFileMtime(t.locals.mtimeMs, now),
          t.locals.existingMeta)

(***************************************************************************)
(* deleteFile.                                                             *)
(***************************************************************************)
\* deleteFile without its dry-run branch
deleteFileNoDryRun(path, cfg) ==
  [IdleFrame EXCEPT !.op = "deleteFile", !.paths = <<path>>, !.dryRun = cfg.dryRun,
                    !.pc = "deleteFile_get"]

deleteFile(path, cfg) ==
  IF cfg.dryRun
  THEN [IdleFrame EXCEPT !.op = "deleteFile", !.paths = <<path>>, !.dryRun = cfg.dryRun,
                         !.pc = "done", !.ret = "true"]
  ELSE [IdleFrame EXCEPT !.op = "deleteFile", !.paths = <<path>>, !.dryRun = cfg.dryRun,
                         !.pc = "deleteFile_get"]

\* a deleteFile that reports a deletion when it found no record
deleteFileGotTrue(t, store) ==
  IF ~IsNull(store[filePath(t)])
  THEN [t EXCEPT !.locals.existingMeta = store[filePath(t)], !.pc = "deleteFile_delete"]
  ELSE [t EXCEPT !.pc = "done", !.ret = "true"]

deleteFileGot(t, store) ==
  IF ~IsNull(store[filePath(t)])
  THEN [t EXCEPT !.locals.existingMeta = store[filePath(t)], !.pc = "deleteFile_delete"]
  ELSE [t EXCEPT !.pc = "done", !.ret = "false"]

deleteFileDeleted(t) == [t EXCEPT !.pc = "done", !.ret = "true", !.locals = NoLocals]

\* deleteFile's catch block
deleteFileCatch(t) ==
  [noteFault(t) EXCEPT !.pc = "done", !.ret = "false", !.locals = NoLocals]

(***************************************************************************)
(* readFile, between its requests.  locals.chunks is the array the loop    *)
(* pushes the leaves' data to; the loop is at meta.children[chunks.length  *)
(* + 1].  The frame returns "null", "content" (the joined string is        *)
(* locals.content) or the message it threw.                                *)
(***************************************************************************)
RECURSIVE join(_)
join(chunks) == IF chunks = <<>> THEN <<>> ELSE Head(chunks) \o join(Tail(chunks))

childId(t) == t.locals.existingMeta.children[Len(t.locals.chunks) + 1]

readFileCall(path) ==
  [IdleFrame EXCEPT !.op = "readFile", !.paths = <<path>>, !.pc = "readFile_get_meta"]

readFileThrew(t, message) == [noteFault(t) EXCEPT !.pc = "done", !.ret = message]

\* the head of the for loop over meta.children
readFileLoop(t) ==
  IF Len(t.locals.chunks) < Len(t.locals.existingMeta.children)
  THEN [t EXCEPT !.pc = "readFile_get_leaf"]
  ELSE [t EXCEPT !.pc = "done", !.ret = "content", !.locals.content = join(t.locals.chunks)]

readFileGotMeta(t, store) ==
  IF IsNull(store[filePath(t)])
  THEN [t EXCEPT !.pc = "done", !.ret = "null"]
  ELSE readFileLoop([t EXCEPT !.locals.existingMeta = store[filePath(t)]])

\* a loop that passes over a chunk it did not get
readFileGotLeafSkip(t, store) ==
  IF IsNull(store[childId(t)])
  THEN readFileLoop([t EXCEPT !.locals.chunks = Append(@, <<>>)])
  ELSE readFileLoop([t EXCEPT !.locals.chunks = Append(@, store[childId(t)].data)])

readFileGotLeaf(t, store) ==
  IF IsNull(store[childId(t)])
  THEN readFileThrew(t, "Missing chunk")
  ELSE readFileLoop([t EXCEPT !.locals.chunks = Append(@, store[childId(t)].data)])

(***************************************************************************)
(* watch.ts: the file watcher.                                             *)
(***************************************************************************)
NotWatching == [kind |-> "none"]
Watching(cfg) == [kind |-> "watching", config |-> cfg]
\* cli.ts, cleanup: watcher.close() was called / its promise resolved and
\* process.exit(0) ran
Closing(w) == [w EXCEPT !.kind = "closing"]
Exited(w) == [w EXCEPT !.kind = "exited"]

NoTimeout == [kind |-> "none"]
Timeout(path, action, due) ==
  [kind |-> "timeout", path |-> path, action |-> action, due |-> due]

\* path.extname
extname(path) ==
  CASE path \in {"a.md", "b.md"} -> ".md"
    [] path = "c.png" -> ".png"

\* setTimeout(callback, config.debounce)
setTimeout(w, path, action, cfg, at) ==
  LET timeout == Timeout(path, action, at + cfg.debounce)
  IN [timers |-> w.timers \cup {timeout},
      pendingChanges |-> [w.pendingChanges EXCEPT ![path] = timeout]]

\* a handler that leaves the pending timeout armed
clearNothing(w, path) == w

\* const existing = pendingChanges.get(relPath); if (existing) clearTimeout(existing)
clearExisting(w, path) ==
  [w EXCEPT !.timers = @ \ {w.pendingChanges[path]}]

\* a handler that arms a timeout and leaves the pending one armed
debouncedSyncNoClear(w, relPath, cfg, at) ==
  IF extname(relPath) \notin cfg.extensions THEN w
  ELSE setTimeout(w, relPath, "sync", cfg, at)

\* a handler that cancels the pending timeout and arms none
debouncedSyncNoArm(w, relPath, cfg, at) ==
  IF extname(relPath) \notin cfg.extensions THEN w
  ELSE clearExisting(w, relPath)

\* the handler of "add" and "change"
debouncedSync(w, relPath, cfg, at) ==
  IF extname(relPath) \notin cfg.extensions THEN w
  ELSE setTimeout(clearExisting(w, relPath), relPath, "sync", cfg, at)

\* an "unlink" handler that arms a timeout and leaves the pending one armed
debouncedDeleteNoClear(w, relPath, cfg, at) ==
  IF extname(relPath) \notin cfg.extensions THEN w
  ELSE setTimeout(w, relPath, "delete", cfg, at)

\* an "unlink" handler that does not look at the extension
debouncedDeleteAnyExt(w, relPath, cfg, at) ==
  setTimeout(clearExisting(w, relPath), relPath, "delete", cfg, at)

\* the handler of "unlink"
debouncedDelete(w, relPath, cfg, at) ==
  IF extname(relPath) \notin cfg.extensions THEN w
  ELSE setTimeout(clearExisting(w, relPath), relPath, "delete", cfg, at)

FsEvents == {"add", "change", "unlink"}
TimeoutActions == {"sync", "delete"}
Timeouts ==
  {Timeout(p, a, due) : p \in WatchPaths, a \in TimeoutActions, due \in 0..(MaxTime + DebounceTicks)}

\* watcher.on("add", ...).on("change", ...).on("unlink", ...)
onEvent(ev, w, relPath, cfg, at) ==
  IF ev = "unlink" THEN debouncedDelete(w, relPath, cfg, at)
  ELSE debouncedSync(w, relPath, cfg, at)

\* the timeout's callback: the call it makes, up to that call's first request
timeoutCallback(timeout, cfg, d) ==
  IF timeout.action = "sync" THEN syncFiles(<<timeout.path>>, cfg, FALSE, d)
  ELSE deleteFile(timeout.path, cfg)

\* history of the events on one path (of a path outside the allow-list only
\* that there was an event): the time of the last one, of the first one
\* of the burst it belongs to, the number of events in that burst, the number
\* of bursts (an event starts a burst when it comes a debounce interval or more
\* after the one before), the type of the last event and the types of the
\* events of its burst
NoEvent ==
  [last |-> -1, since |-> -1, events |-> 0, bursts |-> 0, kind |-> "none", kinds |-> {}]
StartsBurst(j, cfg, at) == j.events = 0 \/ at - j.last >= cfg.debounce
noteEvent(j, path, ev, cfg, at) ==
  IF extname(path) \notin cfg.extensions THEN [j EXCEPT !.events = 1]
  ELSE IF StartsBurst(j, cfg, at)
  THEN [last |-> at, since |-> at, events |-> 1, bursts |-> j.bursts + 1,
        kind |-> ev, kinds |-> {ev}]
  ELSE [j EXCEPT !.last = at, !.events = @ + 1, !.kind = ev, !.kinds = @ \cup {ev}]

\* the burst held events of both handlers: one superseded the other
Superseding(j) == "unlink" \in j.kinds /\ j.kinds # {"unlink"}
\* the burst is dispatched: its event types are forgotten
noteDispatch(j) == [j EXCEPT !.kind = "none", !.kinds = {}]

\* no command line, environment or working directory is modelled
NoEnv == [kind |-> "none"]

NotStarted ==
  /\ env = NoEnv
  /\ watcher = NotWatching
  /\ timers = {}
  /\ pendingChanges = [p \in WatchPaths |-> NoTimeout]
  /\ clock = 0
  /\ journal = [p \in WatchPaths |-> NoEvent]
  /\ dispatched = <<>>

(***************************************************************************)
(* Initial state: any vault, an empty database, no call made.              *)
(***************************************************************************)
EmptyDb == [id \in DocIds |-> Missing(0)]

Init ==
  /\ disk \in [Paths -> DiskStates]
  /\ db = EmptyDb
  /\ tasks = [k \in Calls |-> IdleFrame]
  /\ diskOps = 0
  /\ outages = 0
  /\ NotStarted

(***************************************************************************)
(* The environment changes the vault.                                      *)
(***************************************************************************)
DiskChange(p, f) ==
  /\ diskOps < MaxDiskOps
  /\ disk[p] # f
  /\ disk' = [disk EXCEPT ![p] = f]
  /\ diskOps' = diskOps + 1
  /\ UNCHANGED <<db, tasks, outages>>
  /\ UNCHANGED wvars

(***************************************************************************)
(* Entry points.  Calls are numbered in the order they are made.           *)
(***************************************************************************)
MayCall(k) ==
  /\ tasks[k].op = "idle"
  /\ k > 1 => tasks[k - 1].op # "idle"

CallSyncFiles(k, paths, cfg, del) ==
  /\ MayCall(k)
  /\ tasks' = [tasks EXCEPT ![k] = syncFiles(paths, cfg, del, disk)]
  /\ UNCHANGED <<disk, db, diskOps, outages>>
  /\ UNCHANGED wvars

CallDeleteFile(k, path, cfg) ==
  /\ MayCall(k)
  /\ tasks' = [tasks EXCEPT ![k] = deleteFile(path, cfg)]
  /\ UNCHANGED <<disk, db, diskOps, outages>>
  /\ UNCHANGED wvars

(***************************************************************************)
(* The requests of a syncFiles call.                                       *)
(***************************************************************************)
At(k, op, pc) == tasks[k].op = op /\ tasks[k].pc = pc

\* the process runs (process.exit was not called)
Alive == watcher.kind # "exited"

\* one request: it gets through to the store, or it is one more outage
Request(resp) ==
  /\ Alive
  /\ resp = "unavailable" => outages < MaxOutages
  /\ outages' = IF resp = "unavailable" THEN outages + 1 ELSE outages

WriteGetMeta(k, resp) ==
  /\ At(k, "syncFiles", "write_get_meta")
  /\ Request(resp)
  /\ LET r == get(db, filePath(tasks[k]), resp) IN
       tasks' = [tasks EXCEPT ![k] =
                   IF r.ok THEN writeFileGotMeta(@, db)
                   ELSE syncFilesCatch(@, r.error, disk)]
  /\ UNCHANGED <<disk, db, diskOps>>
  /\ UNCHANGED wvars

WriteGetLeaf(k, resp) ==
  /\ At(k, "syncFiles", "write_get_leaf")
  /\ Request(resp)
  /\ LET r == get(db, tasks[k].locals.leafId, resp) IN
       tasks' = [tasks EXCEPT ![k] =
                   IF r.ok THEN writeFileGotLeaf(@, db)
                   ELSE syncFilesCatch(@, r.error, disk)]
  /\ UNCHANGED <<disk, db, diskOps>>
  /\ UNCHANGED wvars

WritePutLeaf(k, resp) ==
  /\ At(k, "syncFiles", "write_put_leaf")
  /\ Request(resp)
  /\ LET r == put(db, tasks[k].locals.leafId, leafDoc(tasks[k].locals.content), resp) IN
       /\ db' = r.db
       /\ tasks' = [tasks EXCEPT ![k] =
                      IF r.ok THEN writeFilePutLeaf(@)
                      ELSE syncFilesCatch(@, r.error, disk)]
  /\ UNCHANGED <<disk, diskOps>>
  /\ UNCHANGED wvars

WritePutMeta(k, resp, now) ==
  /\ At(k, "syncFiles", "write_put_meta")
  /\ Request(resp)
  /\ LET r == put(db, filePath(tasks[k]), writeFileMetaDoc(tasks[k], now), resp) IN
       /\ db' = r.db
       /\ tasks' = [tasks EXCEPT ![k] =
                      IF r.ok THEN syncFilesLoop(pushSynced(@), disk)
                      ELSE syncFilesCatch(@, r.error, disk)]
  /\ UNCHANGED <<disk, diskOps>>
  /\ UNCHANGED wvars

DeleteGet(k, resp) ==
  /\ At(k, "syncFiles", "delete_get")
  /\ Request(resp)
  /\ LET r == get(db, filePath(tasks[k]), resp) IN
       tasks' = [tasks EXCEPT ![k] =
                   IF r.ok THEN syncFilesGotExisting(@, db, disk)
                   ELSE syncFilesCatch(@, r.error, disk)]
  /\ UNCHANGED <<disk, db, diskOps>>
  /\ UNCHANGED wvars

DeleteDelete(k, resp) ==
  /\ At(k, "syncFiles", "delete_delete")
  /\ Request(resp)
  /\ LET r == delete(db, filePath(tasks[k]), tasks[k].locals.existingMeta.rev, resp) IN
       /\ db' = r.db
       /\ tasks' = [tasks EXCEPT ![k] =
                      IF r.ok THEN syncFilesLoop(pushDeleted(@), disk)
                      ELSE syncFilesCatch(@, r.error, disk)]
  /\ UNCHANGED <<disk, diskOps>>
  /\ UNCHANGED wvars

(***************************************************************************)
(* The requests of a deleteFile call.                                      *)
(***************************************************************************)
DeleteFileGet(k, resp) ==
  /\ At(k, "deleteFile", "deleteFile_get")
  /\ Request(resp)
  /\ LET r == get(db, filePath(tasks[k]), resp) IN
       tasks' = [tasks EXCEPT ![k] =
                   IF r.ok THEN deleteFileGot(@, db) ELSE deleteFileCatch(@)]
  /\ UNCHANGED <<disk, db, diskOps>>
  /\ UNCHANGED wvars

DeleteFileDelete(k, resp) ==
  /\ At(k, "deleteFile", "deleteFile_delete")
  /\ Request(resp)
  /\ LET r == delete(db, filePath(tasks[k]), tasks[k].locals.existingMeta.rev, resp) IN
       /\ db' = r.db
       /\ tasks' = [tasks EXCEPT ![k] =
                      IF r.ok THEN deleteFileDeleted(@) ELSE deleteFileCatch(@)]
  /\ UNCHANGED <<disk, diskOps>>
  /\ UNCHANGED wvars

Next ==
  \/ \E p \in Paths, f \in DiskStates : DiskChange(p, f)
  \/ \E k \in Calls, paths \in Batches, cfg \in Configs, del \in BOOLEAN :
       CallSyncFiles(k, paths, cfg, del)
  \/ \E k \in Calls, p \in Paths, cfg \in Configs : CallDeleteFile(k, p, cfg)
  \/ \E k \in Calls, resp \in Responses : WriteGetMeta(k, resp)
  \/ \E k \in Calls, resp \in Responses : WriteGetLeaf(k, resp)
  \/ \E k \in Calls, resp \in Responses : WritePutLeaf(k, resp)
  \/ \E k \in Calls, resp \in Responses, now \in Times : WritePutMeta(k, resp, now)
  \/ \E k \in Calls, resp \in Responses : DeleteGet(k, resp)
  \/ \E k \in Calls, resp \in Responses : DeleteDelete(k, resp)
  \/ \E k \in Calls, resp \in Responses : DeleteFileGet(k, resp)
  \/ \E k \in Calls, resp \in Responses : DeleteFileDelete(k, resp)

Spec == Init /\ [][Next]_vars

(***************************************************************************)
(* The timestamps: repeated syncFiles calls (no deletion) over a vault     *)
(* whose files change content and stamps.                                  *)
(***************************************************************************)
InitStat ==
  /\ disk \in [Paths -> StampedDiskStates]
  /\ db = EmptyDb
  /\ tasks = [k \in Calls |-> IdleFrame]
  /\ diskOps = 0
  /\ outages = 0
  /\ NotStarted

NextStat ==
  \/ \E p \in Paths, f \in StampedDiskStates : DiskChange(p, f)
  \/ \E k \in Calls, paths \in Batches, cfg \in Configs :
       CallSyncFiles(k, paths, cfg, FALSE)
  \/ \E k \in Calls, resp \in Responses : WriteGetMeta(k, resp)
  \/ \E k \in Calls, resp \in Responses : WriteGetLeaf(k, resp)
  \/ \E k \in Calls, resp \in Responses : WritePutLeaf(k, resp)
  \/ \E k \in Calls, resp \in Responses, now \in Times : WritePutMeta(k, resp, now)

SpecStat == InitStat /\ [][NextStat]_vars

\* the same, with each syncFiles call made after the one before has returned
CallSyncFilesNext(k, paths, cfg) ==
  /\ \A j \in Calls : tasks[j].pc \in {"idle", "done"}
  /\ CallSyncFiles(k, paths, cfg, FALSE)

NextSeq ==
  \/ \E p \in Paths, f \in StampedDiskStates : DiskChange(p, f)
  \/ \E k \in Calls, paths \in Batches, cfg \in Configs : CallSyncFilesNext(k, paths, cfg)
  \/ \E k \in Calls, resp \in Responses : WriteGetMeta(k, resp)
  \/ \E k \in Calls, resp \in Responses : WriteGetLeaf(k, resp)
  \/ \E k \in Calls, resp \in Responses : WritePutLeaf(k, resp)
  \/ \E k \in Calls, resp \in Responses, now \in Times : WritePutMeta(k, resp, now)

SpecSeq == InitStat /\ [][NextSeq]_vars

(***************************************************************************)
(* The watcher: watchVault(config) has returned; the file system reports   *)
(* events, timeouts expire, and the dispatched calls run.  The runtime     *)
(* runs the callbacks of expired timeouts before it lets time pass and     *)
(* before it delivers further events.                                      *)
(***************************************************************************)
Expired == {tm \in timers : tm.due <= clock}

Tick ==
  /\ clock < MaxTime
  /\ Expired = {}
  /\ clock' = clock + 1
  /\ UNCHANGED <<disk, db, tasks, diskOps, outages, watcher, timers, pendingChanges,
                 journal, dispatched, env>>

FsEvent(p, ev) ==
  /\ watcher.kind = "watching"
  /\ Expired = {}
  /\ ~StartsBurst(journal[p], watcher.config, clock) => journal[p].events < MaxBurst
  /\ LET w == onEvent(ev, [timers |-> timers, pendingChanges |-> pendingChanges], p,
                      watcher.config, clock)
     IN /\ Cardinality(w.timers) + Len(dispatched) <= MaxCalls
        /\ timers' = w.timers
        /\ pendingChanges' = w.pendingChanges
  /\ journal' = [journal EXCEPT ![p] = noteEvent(@, p, ev, watcher.config, clock)]
  /\ UNCHANGED <<disk, db, tasks, diskOps, outages, watcher, clock, dispatched, env>>

TimerFire(tm) ==
  /\ Alive
  /\ tm \in Expired
  /\ timers' = timers \ {tm}
  /\ pendingChanges' = [pendingChanges EXCEPT ![tm.path] = NoTimeout]
  /\ \E k \in Calls :
       /\ MayCall(k)
       /\ tasks' = [tasks EXCEPT ![k] = timeoutCallback(tm, watcher.config, disk)]
  /\ dispatched' = Append(dispatched,
                          [path |-> tm.path, action |-> tm.action, at |-> clock,
                           last |-> journal[tm.path].last,
                           since |-> journal[tm.path].since,
                           events |-> journal[tm.path].events,
                           superseding |-> Superseding(journal[tm.path])])
  /\ journal' = [journal EXCEPT ![tm.path] = noteDispatch(@)]
  /\ UNCHANGED <<disk, db, diskOps, outages, watcher, clock, env>>

InitWatch ==
  /\ disk \in [Paths -> {Absent, File(<<26085>>, FirstStamp)}]
  /\ db = EmptyDb
  /\ tasks = [k \in Calls |-> IdleFrame]
  /\ diskOps = 0
  /\ outages = 0
  /\ watcher \in {Watching(cfg) : cfg \in Configs}
  /\ timers = {}
  /\ pendingChanges = [p \in WatchPaths |-> NoTimeout]
  /\ clock = 0
  /\ journal = [p \in WatchPaths |-> NoEvent]
  /\ dispatched = <<>>
  /\ env = NoEnv

NextWatch ==
  \/ Tick
  \/ \E p \in WatchPaths, ev \in FsEvents : FsEvent(p, ev)
  \/ \E tm \in Timeouts : TimerFire(tm)
  \/ \E k \in Calls, resp \in Responses : WriteGetMeta(k, resp)
  \/ \E k \in Calls, resp \in Responses : WriteGetLeaf(k, resp)
  \/ \E k \in Calls, resp \in Responses : WritePutLeaf(k, resp)
  \/ \E k \in Calls, resp \in Responses, now \in Times : WritePutMeta(k, resp, now)
  \/ \E k \in Calls, resp \in Responses : DeleteFileGet(k, resp)
  \/ \E k \in Calls, resp \in Responses : DeleteFileDelete(k, resp)

SpecWatch == InitWatch /\ [][NextWatch]_vars

(***************************************************************************)
(* Shutdown (cli.ts, the watch action): on SIGINT or SIGTERM the driver    *)
(* closes the watcher, and exits when the close has resolved.  Closing     *)
(* detaches the event handlers; armed timeouts and calls in flight are     *)
(* left as they are until the process exits.                               *)
(***************************************************************************)
Close ==
  /\ watcher.kind = "watching"
  /\ watcher' = Closing(watcher)
  /\ UNCHANGED <<disk, db, tasks, diskOps, outages, timers, pendingChanges, clock,
                 journal, dispatched, env>>

Exit ==
  /\ watcher.kind = "closing"
  /\ watcher' = Exited(watcher)
  /\ UNCHANGED <<disk, db, tasks, diskOps, outages, timers, pendingChanges, clock,
                 journal, dispatched, env>>

InitClose ==
  /\ InitWatch
  /\ ~watcher.config.dryRun
  /\ \A p \in Paths : existsSync(disk, p)

NextClose ==
  \/ Close
  \/ Exit
  \/ Tick
  \/ \E p \in WatchPaths, ev \in FsEvents : FsEvent(p, ev)
  \/ \E tm \in Timeouts : TimerFire(tm)
  \/ \E k \in Calls, resp \in Responses : WriteGetMeta(k, resp)
  \/ \E k \in Calls, resp \in Responses : WriteGetLeaf(k, resp)
  \/ \E k \in Calls, resp \in Responses : WritePutLeaf(k, resp)
  \/ \E k \in Calls, resp \in Responses, now \in Times : WritePutMeta(k, resp, now)
  \/ \E k \in Calls, resp \in Responses : DeleteFileGet(k, resp)
  \/ \E k \in Calls, resp \in Responses : DeleteFileDelete(k, resp)

SpecClose == InitClose /\ [][NextClose]_vars

(***************************************************************************)
(* Reading back: readFile calls against a database that other LiveSync     *)
(* clients have written too, so a record may list several chunks (or       *)
(* none), and a chunk it lists may not be stored.                          *)
(***************************************************************************)
MaxChildren == 2
ReadContents == Contents \cup {<<104, 105>>}
ReadChunkIds == {chunkId(c) : c \in ReadContents}
ReadDocIds == Paths \cup ReadChunkIds
ChildLists == UNION {[1..n -> ReadChunkIds] : n \in 0..MaxChildren}

contentOf(id) == CHOOSE c \in ReadContents : chunkId(c) = id

\* documents as the store holds them, at their first revision
storedLeaf(id) == [type |-> "leaf", rev |-> 1, data |-> contentOf(id)]
storedMeta(path, children) ==
  [type |-> "plain", path |-> path, children |-> children,
   ctime |-> FirstStamp.ctimeMs, mtime |-> FirstStamp.mtimeMs,
   size |-> byteLength(join([n \in 1..Len(children) |-> contentOf(children[n])])),
   rev |-> 1]

ReadStores ==
  {[id \in ReadDocIds |->
      IF id \in Paths
      THEN IF m[id].has THEN storedMeta(id, m[id].children) ELSE Missing(0)
      ELSE IF id \in present THEN storedLeaf(id) ELSE Missing(0)] :
   m \in [Paths -> [has : BOOLEAN, children : ChildLists]],
   present \in SUBSET ReadChunkIds}

InitRead ==
  /\ disk = [p \in Paths |-> Absent]
  /\ db \in ReadStores
  /\ tasks = [k \in Calls |-> IdleFrame]
  /\ diskOps = 0
  /\ outages = 0
  /\ NotStarted

CallReadFile(k, path) ==
  /\ MayCall(k)
  /\ tasks' = [tasks EXCEPT ![k] = readFileCall(path)]
  /\ UNCHANGED <<disk, db, diskOps, outages>>
  /\ UNCHANGED wvars

ReadGetMeta(k, resp) ==
  /\ At(k, "readFile", "readFile_get_meta")
  /\ Request(resp)
  /\ LET r == get(db, filePath(tasks[k]), resp) IN
       tasks' = [tasks EXCEPT ![k] =
                   IF r.ok THEN readFileGotMeta(@, db) ELSE readFileThrew(@, r.error)]
  /\ UNCHANGED <<disk, db, diskOps>>
  /\ UNCHANGED wvars

ReadGetLeaf(k, resp) ==
  /\ At(k, "readFile", "readFile_get_leaf")
  /\ Request(resp)
  /\ LET r == get(db, childId(tasks[k]), resp) IN
       tasks' = [tasks EXCEPT ![k] =
                   IF r.ok THEN readFileGotLeaf(@, db) ELSE readFileThrew(@, r.error)]
  /\ UNCHANGED <<disk, db, diskOps>>
  /\ UNCHANGED wvars

NextRead ==
  \/ \E k \in Calls, p \in Paths : CallReadFile(k, p)
  \/ \E k \in Calls, resp \in Responses : ReadGetMeta(k, resp)
  \/ \E k \in Calls, resp \in Responses : ReadGetLeaf(k, resp)

SpecRead == InitRead /\ [][NextRead]_vars

(***************************************************************************)
(* A later session: the calls of Next against the database that an         *)
(* earlier syncFiles of the whole vault, then holding empty files, left.   *)
(***************************************************************************)
SyncedDb ==
  [id \in DocIds |->
     IF id \in Paths
     THEN StorePut(EmptyDb, id,
                   metaDoc(id, <<>>, chunkId(<<>>), FirstStamp.ctimeMs,
                           FirstStamp.mtimeMs, Missing(0)))[id]
     ELSE IF id = chunkId(<<>>) THEN StorePut(EmptyDb, id, leafDoc(<<>>))[id]
     ELSE Missing(0)]

InitStored ==
  /\ disk \in [Paths -> DiskStates]
  /\ db = SyncedDb
  /\ tasks = [k \in Calls |-> IdleFrame]
  /\ diskOps = 0
  /\ outages = 0
  /\ NotStarted

SpecStored == InitStored /\ [][Next]_vars

(***************************************************************************)
(* A vault that holds a file outside the allow-list (tests/e2e.ts,         *)
(* testBinarySkip): syncFiles calls, without delete, on batches that name  *)
(* it.                                                                     *)
(***************************************************************************)
ExtPaths == {"a.md", "c.png"}
ExtBatches == {<<"c.png">>, <<"a.md">>, <<"c.png", "a.md">>}

InitExt ==
  /\ disk \in [ExtPaths -> {File(c, FirstStamp) : c \in Contents}]
  /\ db = [id \in ExtPaths \cup ChunkIds |-> Missing(0)]
  /\ tasks = [k \in Calls |-> IdleFrame]
  /\ diskOps = 0
  /\ outages = 0
  /\ NotStarted

NextExt ==
  \/ \E p \in ExtPaths, f \in DiskStates : DiskChange(p, f)
  \/ \E k \in Calls, paths \in ExtBatches, cfg \in Configs :
       CallSyncFiles(k, paths, cfg, FALSE)
  \/ \E k \in Calls, resp \in Responses : WriteGetMeta(k, resp)
  \/ \E k \in Calls, resp \in Responses : WriteGetLeaf(k, resp)
  \/ \E k \in Calls, resp \in Responses : WritePutLeaf(k, resp)
  \/ \E k \in Calls, resp \in Responses, now \in Times : WritePutMeta(k, resp, now)

SpecExt == InitExt /\ [][NextExt]_vars

(***************************************************************************)
(* syncGitChanges.  The output of git diff --name-status, split at the     *)
(* newlines, is a sequence of lines; a line is the sequence of its         *)
(* tab-separated fields: the status (a letter, followed by a similarity    *)
(* score for a rename or a copy) and the path, or the old and the new path *)
(* of a rename or copy.  Call 1 is the syncFiles of the added paths, call  *)
(* 2 the syncFiles of the deleted ones, made when call 1 has returned.     *)
(***************************************************************************)
MaxLines == 2
PathStatuses == {"A", "M", "D"}
PairStatuses == {"R100", "C100"}
GitLines ==
  {<<st, p>> : st \in PathStatuses, p \in WatchPaths}
  \cup {l \in {<<st, p, q>> : st \in PairStatuses, p \in WatchPaths, q \in WatchPaths} :
          l[2] # l[3]}

\* git reports a path at most once
PathsOf(line) == {line[n] : n \in 2..Len(line)}
GitDiffs ==
  {lines \in UNION {[1..n -> GitLines] : n \in 0..MaxLines} :
     \A m, n \in 1..Len(lines) : m # n => PathsOf(lines[m]) \cap PathsOf(lines[n]) = {}}

RECURSIVE joinTabs(_)
joinTabs(fields) ==
  IF Len(fields) = 1 THEN fields[1] ELSE fields[1] \o "\t" \o joinTabs(Tail(fields))

\* line.match(/^([AMDRC])\t(.+)$/): one letter, a tab, the rest of the line
matchLine(line) ==
  IF line[1] \in {"A", "M", "D", "R", "C"} /\ Len(line) >= 2
  THEN [matched |-> TRUE, status |-> line[1], filePath |-> joinTabs(Tail(line))]
  ELSE [matched |-> FALSE]

\* the loop over the lines: acc is [added, deleted]
RECURSIVE parseDiff(_, _, _)
parseDiff(lines, cfg, acc) ==
  IF lines = <<>> THEN acc
  ELSE LET m == matchLine(Head(lines)) IN
       IF ~m.matched THEN parseDiff(Tail(lines), cfg, acc)
       ELSE IF extname(m.filePath) \notin cfg.extensions
       THEN parseDiff(Tail(lines), cfg, acc)
       ELSE IF m.status = "D"
       THEN parseDiff(Tail(lines), cfg, [acc EXCEPT !.deleted = Append(@, m.filePath)])
       ELSE parseDiff(Tail(lines), cfg, [acc EXCEPT !.added = Append(@, m.filePath)])

\* a syncFiles call that syncGitChanges does not make (its list is empty)
NotMade == [IdleFrame EXCEPT !.op = "none", !.pc = "done"]
\* the call of the deleted paths, before call 1 has returned
Pending(paths, cfg) ==
  [IdleFrame EXCEPT !.op = "syncFiles", !.pc = "pending", !.paths = paths,
                    !.delete = TRUE, !.dryRun = cfg.dryRun]

\* a syncGitChanges that goes on with what git printed when execSync threw
syncGitChangesNoCatch(e, d) ==
  LET lists == parseDiff(e.lines, e.config, [added |-> <<>>, deleted |-> <<>>])
  IN [first |-> IF lists.added = <<>> THEN NotMade
                ELSE syncFiles(lists.added, e.config, FALSE, d),
      second |-> Pending(lists.deleted, e.config)]

\* the frames of the two calls after the parse; execSync threw (e.lines is
\* what git had printed by then) or printed nothing: neither is made
syncGitChanges(e, d) ==
  LET lists == IF e.ok THEN parseDiff(e.lines, e.config, [added |-> <<>>, deleted |-> <<>>])
               ELSE [added |-> <<>>, deleted |-> <<>>]
  IN [first |-> IF lists.added = <<>> THEN NotMade
                ELSE syncFiles(lists.added, e.config, FALSE, d),
      second |-> Pending(lists.deleted, e.config)]

secondCall(t, cfg, d) ==
  IF t.paths = <<>> THEN NotMade ELSE syncFiles(t.paths, cfg, TRUE, d)

\* the SyncResult syncGitChanges returns, from those of its two calls
gitResult(first, second) ==
  [synced |-> first.result.synced, deleted |-> second.result.deleted,
   errors |-> first.result.errors \o second.result.errors]

\* ok: execSync returned (git exited with 0, within maxBuffer)
GitEnvs == [kind : {"git"}, config : Configs, ok : BOOLEAN, lines : GitDiffs]

InitGit ==
  /\ disk \in [Paths -> {Absent, File(<<26085>>, FirstStamp)}]
  /\ db = SyncedDb
  /\ tasks = [k \in Calls |-> IdleFrame]
  /\ diskOps = 0
  /\ outages = 0
  /\ watcher = NotWatching
  /\ timers = {}
  /\ pendingChanges = [p \in WatchPaths |-> NoTimeout]
  /\ clock = 0
  /\ journal = [p \in WatchPaths |-> NoEvent]
  /\ dispatched = <<>>
  /\ env \in GitEnvs

CallSyncGitChanges ==
  /\ tasks[1].op = "idle"
  /\ LET r == syncGitChanges(env, disk) IN
       tasks' = [tasks EXCEPT ![1] = r.first, ![2] = r.second]
  /\ UNCHANGED <<disk, db, diskOps, outages>>
  /\ UNCHANGED wvars

GitSecondCall ==
  /\ tasks[1].pc = "done"
  /\ tasks[2].pc = "pending"
  /\ tasks' = [tasks EXCEPT ![2] = secondCall(@, env.config, disk)]
  /\ UNCHANGED <<disk, db, diskOps, outages>>
  /\ UNCHANGED wvars

NextGit ==
  \/ CallSyncGitChanges
  \/ GitSecondCall
  \/ \E k \in Calls, resp \in Responses : WriteGetMeta(k, resp)
  \/ \E k \in Calls, resp \in Responses : WriteGetLeaf(k, resp)
  \/ \E k \in Calls, resp \in Responses : WritePutLeaf(k, resp)
  \/ \E k \in Calls, resp \in Responses, now \in Times : WritePutMeta(k, resp, now)
  \/ \E k \in Calls, resp \in Responses : DeleteGet(k, resp)
  \/ \E k \in Calls, resp \in Responses : DeleteDelete(k, resp)

SpecGit == InitGit /\ [][NextGit]_vars

(***************************************************************************)
(* syncAll.  The vault is a tree: the set of its files, each the sequence  *)
(* of the names from the root down to the file; the directories are the    *)
(* proper prefixes.  readdirSync lists the entries of a directory in name  *)
(* order.                                                                  *)
(***************************************************************************)
MaxFiles == 2
MaxDepth == 2
FileNames == {"a.md", "c.png"}
DirNames == {".git", ".obsidian", "node_modules", "notes"}
NameOrder == <<".git", ".obsidian", "a.md", "c.png", "node_modules", "notes">>
TreeFiles ==
  UNION {{dirs \o <<f>> : dirs \in [1..n -> DirNames], f \in FileNames} : n \in 0..MaxDepth}
Trees ==
  {{files[n] : n \in 1..Len(files)} :
     files \in UNION {[1..n -> TreeFiles] : n \in 0..MaxFiles}}

\* path.relative(rootDir, fullPath)
RECURSIVE relative(_)
relative(names) ==
  IF Len(names) = 1 THEN names[1] ELSE names[1] \o "/" \o relative(Tail(names))

Under(tree, dir) ==
  {q \in tree : Len(q) > Len(dir) /\ SubSeq(q, 1, Len(dir)) = dir}
\* readdirSync(dir, {withFileTypes: true})
readdirSync(tree, dir) == {q[Len(dir) + 1] : q \in Under(tree, dir)}
isDirectory(tree, dir, name) == Under(tree, dir \o <<name>>) # {}
isFile(tree, dir, name) == (dir \o <<name>>) \in tree

ignorePatterns == {".git", ".obsidian", "node_modules"}
startsWithDot(name) == name \in {".git", ".obsidian"}

\* a walk that passes over the dot directories only
ignoresDotOnly(name) == startsWithDot(name) /\ name \in ignorePatterns

\* the two `continue` of collectFiles: an entry, then a directory, that is
\* one of the ignore patterns
ignores(name) ==
  \/ startsWithDot(name) /\ name \in ignorePatterns
  \/ name \in ignorePatterns

\* collectFiles(dir, rootDir, extensions), from the n-th entry of dir on
RECURSIVE collectFiles(_, _, _, _)
collectFiles(tree, dir, extensions, n) ==
  IF n > Len(NameOrder) THEN <<>>
  ELSE LET name == NameOrder[n]
           rest == collectFiles(tree, dir, extensions, n + 1)
       IN IF name \notin readdirSync(tree, dir) THEN rest
          ELSE IF isDirectory(tree, dir, name)
          THEN IF ignores(name) THEN rest
               ELSE collectFiles(tree, dir \o <<name>>, extensions, 1) \o rest
          ELSE IF isFile(tree, dir, name) /\ extname(name) \in extensions
          THEN <<relative(dir \o <<name>>)>> \o rest
          ELSE rest

syncAll(e, d) ==
  syncFiles(collectFiles(e.tree, <<>>, e.config.extensions, 1), e.config, FALSE, d)

AllFiles == {relative(q) : q \in TreeFiles}
TreeEnvs == [kind : {"all"}, config : Configs, tree : Trees]

InitAll ==
  /\ env \in TreeEnvs
  /\ disk = [p \in AllFiles |->
               IF \E q \in env.tree : relative(q) = p THEN File(<<26085>>, FirstStamp)
               ELSE Absent]
  /\ db = [id \in AllFiles \cup ChunkIds |-> Missing(0)]
  /\ tasks = [k \in Calls |-> IdleFrame]
  /\ diskOps = 0
  /\ outages = 0
  /\ watcher = NotWatching
  /\ timers = {}
  /\ pendingChanges = [p \in WatchPaths |-> NoTimeout]
  /\ clock = 0
  /\ journal = [p \in WatchPaths |-> NoEvent]
  /\ dispatched = <<>>

CallSyncAll ==
  /\ tasks[1].op = "idle"
  /\ tasks' = [tasks EXCEPT ![1] = syncAll(env, disk)]
  /\ UNCHANGED <<disk, db, diskOps, outages>>
  /\ UNCHANGED wvars

NextAll ==
  \/ CallSyncAll
  \/ \E k \in Calls, resp \in Responses : WriteGetMeta(k, resp)
  \/ \E k \in Calls, resp \in Responses : WriteGetLeaf(k, resp)
  \/ \E k \in Calls, resp \in Responses : WritePutLeaf(k, resp)
  \/ \E k \in Calls, resp \in Responses, now \in Times : WritePutMeta(k, resp, now)

SpecAll == InitAll /\ [][NextAll]_vars

(***************************************************************************)
(* The command line (cli.ts, the sync and watch actions) and config.ts.    *)
(* A value that may be undefined (an environment variable, a key of the    *)
(* config file, an option not given) is [set |-> FALSE] or                 *)
(* [set |-> TRUE, value |-> v].                                            *)
(***************************************************************************)
Undefined == [set |-> FALSE]
Defined(v) == [set |-> TRUE, value |-> v]

\* a ?? b
coalesce(a, b) == IF a.set THEN a ELSE b

\* commander: the value of an option declared with a default
optionOr(opt, default) == IF opt.set THEN opt.value ELSE default

\* (opts.extensions as string).split(",").map((e) => e.trim())
splitTrim(str) ==
  CASE str = ".md" -> {".md"}
    [] str = ".md, .txt" -> {".md", ".txt"}

\* parseInt(opts.debounce, 10), in units of 100 ms
parseInt(str) ==
  CASE str = "200" -> [nan |-> FALSE, value |-> DebounceTicks]
    [] str = "100" -> [nan |-> FALSE, value |-> 1]
    [] OTHER -> [nan |-> TRUE, value |-> 0]

DEFAULTS == [extensions |-> {".md"}, debounce |-> DebounceTicks, dryRun |-> FALSE]
cwd == "/cwd"

\* loadConfig(options): e gives process.env and the parsed config file
loadConfig(e, options) ==
  [couchdbUser |-> coalesce(e.envUser, coalesce(e.file.couchdbUser, Defined(""))).value,
   couchdbPassword |->
     coalesce(e.envPassword, coalesce(e.file.couchdbPassword, Defined(""))).value,
   vaultRoot |-> coalesce(e.envVaultRoot, coalesce(e.file.vaultRoot, Defined(cwd))).value,
   extensions |->
     coalesce(options.extensions,
              coalesce(e.file.extensions, Defined(DEFAULTS.extensions))).value,
   debounce |->
     coalesce(options.debounce, coalesce(e.file.debounce, Defined(DEFAULTS.debounce))).value,
   dryRun |-> coalesce(options.dryRun, Defined(DEFAULTS.dryRun)).value]

\* a validation that does not look at the user
validateConfigNoUser(config) ==
  (IF config.couchdbPassword = "" THEN <<"COUCHDB_PASSWORD is required">> ELSE <<>>)
  \o (IF config.vaultRoot = "" THEN <<"VAULT_ROOT is required">> ELSE <<>>)

validateConfig(config) ==
  (IF config.couchdbUser = "" THEN <<"COUCHDB_USER is required">> ELSE <<>>)
  \o (IF config.couchdbPassword = "" THEN <<"COUCHDB_PASSWORD is required">> ELSE <<>>)
  \o (IF config.vaultRoot = "" THEN <<"VAULT_ROOT is required">> ELSE <<>>)

\* process.exit(code), or the end of the program
ExitedWith(code) == [kind |-> "exited", code |-> code]

\* the options both actions hand to loadConfig
optionsOf(e) ==
  [extensions |-> Defined(splitTrim(optionOr(e.optExtensions, ".md"))),
   debounce |-> Defined(parseInt(optionOr(e.optDebounce, "200")).value),
   dryRun |-> Defined(e.dryRun)]

\* the sync action up to the first request of its call: [watcher, task]
syncAction(e, d) ==
  IF parseInt(optionOr(e.optDebounce, "200")).nan
  THEN [watcher |-> ExitedWith(1), task |-> IdleFrame]
  ELSE LET config == loadConfig(e, optionsOf(e)) IN
       IF validateConfig(config) # <<>>
       THEN [watcher |-> ExitedWith(1), task |-> IdleFrame]
       ELSE IF e.files # <<>>
       THEN [watcher |-> NotWatching, task |-> syncFiles(e.files, config, e.delete, d)]
       ELSE [watcher |-> ExitedWith(1), task |-> IdleFrame]

\* the watch action
watchAction(e) ==
  IF parseInt(optionOr(e.optDebounce, "200")).nan
  THEN [watcher |-> ExitedWith(1), task |-> IdleFrame]
  ELSE LET loaded == loadConfig(e, optionsOf(e))
           config == IF e.dir.set THEN [loaded EXCEPT !.vaultRoot = e.dir.value]
                     ELSE loaded
       IN IF validateConfig(config) # <<>>
          THEN [watcher |-> ExitedWith(1), task |-> IdleFrame]
          ELSE [watcher |-> Watching(config), task |-> IdleFrame]

\* the sync action after its call has returned
syncActionReturned(t) == ExitedWith(IF t.result.errors # <<>> THEN 1 ELSE 0)

ConfigFiles ==
  {[couchdbUser |-> u, couchdbPassword |-> u, vaultRoot |-> Undefined,
    extensions |-> x, debounce |-> b] :
   u \in {Undefined, Defined("admin")},
   x \in {Undefined, Defined({".md", ".txt"})},
   b \in {Undefined, Defined(1)}}

CliEnvs ==
  {e \in [kind : {"cli"}, command : {"sync", "watch"}, dryRun : BOOLEAN,
          optExtensions : {Undefined, Defined(".md, .txt")},
          optDebounce : {Undefined, Defined("100"), Defined("x")},
          files : {<<>>, <<"a.md">>}, delete : {FALSE},
          dir : {Undefined, Defined("/dir")},
          envUser : {Undefined, Defined(""), Defined("user")},
          envPassword : {Undefined, Defined("password")},
          envVaultRoot : {Undefined, Defined("")},
          file : ConfigFiles] :
     /\ e.command = "watch" => e.files = <<>>
     /\ e.command = "sync" => ~e.dir.set}

InitCli ==
  /\ env \in CliEnvs
  /\ disk = [p \in Paths |-> File(<<26085>>, FirstStamp)]
  /\ db = EmptyDb
  /\ tasks = [k \in Calls |-> IdleFrame]
  /\ diskOps = 0
  /\ outages = 0
  /\ watcher = NotWatching
  /\ timers = {}
  /\ pendingChanges = [p \in WatchPaths |-> NoTimeout]
  /\ clock = 0
  /\ journal = [p \in WatchPaths |-> NoEvent]
  /\ dispatched = <<>>

Invoke ==
  /\ watcher = NotWatching
  /\ tasks[1].op = "idle"
  /\ LET r == IF env.command = "sync" THEN syncAction(env, disk) ELSE watchAction(env) IN
       /\ watcher' = r.watcher
       /\ tasks' = [tasks EXCEPT ![1] = r.task]
  /\ UNCHANGED <<disk, db, diskOps, outages, timers, pendingChanges, clock, journal,
                 dispatched, env>>

SyncReturn ==
  /\ env.command = "sync"
  /\ watcher = NotWatching
  /\ tasks[1].op = "syncFiles" /\ tasks[1].pc = "done"
  /\ watcher' = syncActionReturned(tasks[1])
  /\ UNCHANGED <<disk, db, tasks, diskOps, outages, timers, pendingChanges, clock,
                 journal, dispatched, env>>

NextCli ==
  \/ Invoke
  \/ SyncReturn
  \/ Tick
  \/ FsEvent("a.md", "change")
  \/ \E tm \in Timeouts : TimerFire(tm)
  \/ \E k \in Calls, resp \in Responses : WriteGetMeta(k, resp)
  \/ \E k \in Calls, resp \in Responses : WriteGetLeaf(k, resp)
  \/ \E k \in Calls, resp \in Responses : WritePutLeaf(k, resp)
  \/ \E k \in Calls, resp \in Responses, now \in Times : WritePutMeta(k, resp, now)

SpecCli == InitCli /\ [][NextCli]_vars

(***************************************************************************)
(* Sizes: syncFiles calls over a vault whose files hold characters of one, *)
(* two, three and four bytes.                                              *)
(***************************************************************************)
SizeContents ==
  {<<>>, <<104, 105>>, <<233>>, <<26085>>, <<127800>>,
   <<12371, 12435, 12395, 12385, 12399>>}

InitSize ==
  /\ disk \in [Paths -> {File(c, FirstStamp) : c \in SizeContents}]
  /\ db = [id \in Paths \cup {chunkId(c) : c \in SizeContents} |-> Missing(0)]
  /\ tasks = [k \in Calls |-> IdleFrame]
  /\ diskOps = 0
  /\ outages = 0
  /\ NotStarted

NextSize ==
  \/ \E k \in Calls, paths \in Batches, cfg \in Configs : CallSyncFilesNext(k, paths, cfg)
  \/ \E k \in Calls, resp \in Responses : WriteGetMeta(k, resp)
  \/ \E k \in Calls, resp \in Responses : WriteGetLeaf(k, resp)
  \/ \E k \in Calls, resp \in Responses : WritePutLeaf(k, resp)
  \/ \E k \in Calls, resp \in Responses, now \in Times : WritePutMeta(k, resp, now)

SpecSize == InitSize /\ [][NextSize]_vars

(***************************************************************************)
(* The watcher over a vault that changes: each change of a file is         *)
(* reported to the watcher as the event chokidar emits for it ("add" for a *)
(* new file, "change" for new content, "unlink" for a removal).  The       *)
(* watcher runs outside dry-run.                                           *)
(***************************************************************************)
MaxVaultChanges == 2    \* changes to the vault while it is watched

VaultStates == {Absent} \cup {File(c, FirstStamp) : c \in Contents}

\* the event chokidar emits for a change of a path from old to new
eventOf(old, new) ==
  IF new.kind = "absent" THEN "unlink"
  ELSE IF old.kind = "absent" THEN "add" ELSE "change"

VaultChange(p, f) ==
  /\ watcher.kind = "watching"
  /\ Expired = {}
  /\ diskOps < MaxVaultChanges
  /\ disk[p] # f
  /\ ~StartsBurst(journal[p], watcher.config, clock) => journal[p].events < MaxBurst
  /\ LET ev == eventOf(disk[p], f)
         w == onEvent(ev, [timers |-> timers, pendingChanges |-> pendingChanges], p,
                      watcher.config, clock)
     IN /\ Cardinality(w.timers) + Len(dispatched) <= MaxCalls
        /\ timers' = w.timers
        /\ pendingChanges' = w.pendingChanges
        /\ journal' = [journal EXCEPT ![p] = noteEvent(@, p, ev, watcher.config, clock)]
  /\ disk' = [disk EXCEPT ![p] = f]
  /\ diskOps' = diskOps + 1
  /\ UNCHANGED <<db, tasks, outages, watcher, clock, dispatched, env>>

InitMirror ==
  /\ InitWatch
  /\ disk \in [Paths -> VaultStates]
  /\ ~watcher.config.dryRun

NextMirror ==
  \/ Tick
  \/ \E p \in Paths, f \in VaultStates : VaultChange(p, f)
  \/ \E tm \in Timeouts : TimerFire(tm)
  \/ \E k \in Calls, resp \in Responses : WriteGetMeta(k, resp)
  \/ \E k \in Calls, resp \in Responses : WriteGetLeaf(k, resp)
  \/ \E k \in Calls, resp \in Responses : WritePutLeaf(k, resp)
  \/ \E k \in Calls, resp \in Responses, now \in Times : WritePutMeta(k, resp, now)
  \/ \E k \in Calls, resp \in Responses : DeleteFileGet(k, resp)
  \/ \E k \in Calls, resp \in Responses : DeleteFileDelete(k, resp)

SpecMirror == InitMirror /\ [][NextMirror]_vars

(***************************************************************************)
(* Properties.                                                             *)
(***************************************************************************)
Running(k) == tasks[k].pc \notin {"idle", "done"}
Stepped(k) == tasks'[k] # tasks[k]
Done(k, op) == tasks[k].op = op /\ tasks[k].pc = "done"
ErrorPaths(t) == [n \in 1..Len(t.result.errors) |-> t.result.errors[n].path]
ContentOf(c) == [kind |-> "content", content |-> c]

\* the errors a step adds to the result of call k
NewErrors(k) ==
  SubSeq(tasks'[k].result.errors, Len(tasks[k].result.errors) + 1,
         Len(tasks'[k].result.errors))

\* the elements of seq at the indices in S, in order
RECURSIVE PickAt(_, _, _)
PickAt(seq, S, j) ==
  IF j > Len(seq) THEN <<>>
  ELSE (IF j \in S THEN <<seq[j]>> ELSE <<>>) \o PickAt(seq, S, j + 1)

\* the revision a frame at writeFile's last request submits
SubmittedRev(t) ==
  IF IsNull(t.locals.existingMeta) THEN NoRev ELSE t.locals.existingMeta.rev

SyncPcs == {"write_get_meta", "write_get_leaf", "write_put_leaf", "write_put_meta",
            "delete_get", "delete_delete", "done"}
MutatingPcs == {"write_put_leaf", "write_put_meta", "delete_delete", "deleteFile_delete"}

\* C1: round trip.  At the step at which the sync of a path p succeeds (its
\* metadata put is accepted and p is pushed to synced), readFile(p) returns
\* exactly the content the sync read from disk; and a step of anything that is
\* not a call at work on p leaves what readFile(p) returns unchanged.
C1_RoundTrip ==
  [][/\ \A k \in Calls :
          (/\ At(k, "syncFiles", "write_put_meta")
           /\ tasks'[k].result.synced = Append(tasks[k].result.synced, filePath(tasks[k])))
          => readFile(db', filePath(tasks[k])) = ContentOf(tasks[k].locals.content)
     /\ \A p \in Paths :
          (\A k \in Calls : (Running(k) /\ filePath(tasks[k]) = p) => ~Stepped(k))
          => readFile(db', p) = readFile(db, p)]_vars

\* one call has synced the empty a.md and the multi-byte b.md, and both read back
C1_Witness ==
  \E k \in Calls :
    /\ Done(k, "syncFiles") /\ ~tasks[k].dryRun
    /\ tasks[k].result.synced = <<"a.md", "b.md">>
    /\ diskOps = 0
    /\ disk["a.md"] = File(<<>>, FirstStamp)
    /\ disk["b.md"] = File(<<26085>>, FirstStamp)
    /\ readFile(db, "a.md") = ContentOf(<<>>)
    /\ readFile(db, "b.md") = ContentOf(<<26085>>)

\* C2: createdAt is invariant.  As long as the FileRecord of a path is not
\* deleted, no step changes its ctime.
C2_CreatedAtInvariant ==
  [][\A p \in Paths :
       (~IsNull(db[p]) /\ ~IsNull(db'[p])) => db'[p].ctime = db[p].ctime]_vars

\* C3: partial failure.  A syncFiles call is never anywhere but in its loop or
\* returned; when it has returned it has examined every path of the batch, errors
\* lists exactly the paths at which an operation failed, synced lists exactly the
\* other paths found as files, and deleted lists only other paths found absent
\* with delete requested.
C3_PartialFailure ==
  \A k \in Calls :
    tasks[k].op = "syncFiles" =>
      LET t == tasks[k]
          ok == (1..Len(t.paths)) \ t.faulted
      IN /\ t.pc \in SyncPcs
         /\ t.pc = "done" =>
              /\ Len(t.seen) = Len(t.paths)
              /\ ErrorPaths(t) = PickAt(t.paths, t.faulted, 1)
              /\ t.result.synced = PickAt(t.paths, {j \in ok : t.seen[j] = "file"}, 1)
              /\ \E D \in SUBSET {j \in ok : t.seen[j] = "absent" /\ t.delete} :
                   t.result.deleted = PickAt(t.paths, D, 1)

\* a request for the first path of a batch failed and the second path was synced
C3_Witness ==
  \E k \in Calls :
    /\ Done(k, "syncFiles")
    /\ tasks[k].paths = <<"a.md", "b.md">>
    /\ tasks[k].faulted = {1}
    /\ outages = 1
    /\ ErrorPaths(tasks[k]) = <<"a.md">>
    /\ tasks[k].result.synced = <<"b.md">>

\* C4: stale writes.  A metadata put whose revision is not the store's current
\* one for the path (or that carries none although the record exists) changes
\* nothing in the database, fails with Conflict when it reaches the store, and
\* puts the path into the call's errors and not into synced.
C4_StaleWriteRejected ==
  [][\A k \in Calls :
       (/\ At(k, "syncFiles", "write_put_meta")
        /\ Stepped(k)
        /\ ~StoreAccepts(db, filePath(tasks[k]), SubmittedRev(tasks[k])))
       => /\ db' = db
          /\ tasks'[k].result.synced = tasks[k].result.synced
          /\ NewErrors(k) # <<>>
          /\ NewErrors(k)[1] =
               [path |-> filePath(tasks[k]),
                error |-> IF outages' = outages
                          THEN "put failed: 409 Conflict" ELSE "put failed"]]_vars

\* two calls synced the same path with different contents (both chunks are
\* stored): one succeeded, the other one's metadata put was rejected
C4_Witness ==
  \E p \in Paths, k1 \in Calls, k2 \in Calls :
    /\ Done(k1, "syncFiles") /\ Done(k2, "syncFiles")
    /\ tasks[k1].paths = <<p>> /\ tasks[k2].paths = <<p>>
    /\ tasks[k1].result.errors = <<[path |-> p, error |-> "put failed: 409 Conflict"]>>
    /\ tasks[k2].result.synced = <<p>>
    /\ \A c \in Contents : ~IsNull(db[chunkId(c)])
    /\ ~IsNull(db[p])

\* C5: the chunk race is benign.  A chunk put that reaches the store and is
\* rejected because the chunk is already there adds nothing to the call's
\* errors, and the call goes on to put the metadata document.
C5_ChunkRaceBenign ==
  [][\A k \in Calls :
       (/\ At(k, "syncFiles", "write_put_leaf")
        /\ Stepped(k)
        /\ outages' = outages
        /\ ~IsNull(db[tasks[k].locals.leafId]))
       => /\ tasks'[k].pc = "write_put_meta"
          /\ NewErrors(k) = <<>>]_vars

\* C6: every chunk id in the children of a stored metadata document names a
\* stored leaf.
C6_ChunkRefsExist ==
  \A p \in Paths :
    ~IsNull(db[p]) =>
      \A n \in 1..Len(db[p].children) : ~IsNull(db[db[p].children[n]])

\* a record is stored, a record was deleted, and a request failed on the way
C6_Witness ==
  /\ outages > 0
  /\ \E p \in Paths : ~IsNull(db[p]) /\ db[p].children # <<>>
  /\ \E p \in Paths : IsNull(db[p]) /\ db[p].rev > 0

\* C7: a FileRecord is deleted only while its path is absent from disk, and
\* only by a call that was asked to delete.
C7_DeleteOnlyWhenAbsent ==
  [][\A p \in Paths :
       (~IsNull(db[p]) /\ IsNull(db'[p]))
       => /\ disk[p].kind = "absent"
          /\ \E k \in Calls :
               /\ Stepped(k)
               /\ filePath(tasks[k]) = p
               /\ tasks[k].op = "deleteFile" \/ tasks[k].delete]_vars

\* C8: dry run.  No step of a call made with dryRun changes the database or
\* brings the call to a put or a delete.
C8_DryRunNoMutation ==
  [][\A k \in Calls :
       (tasks'[k].dryRun /\ Stepped(k))
       => /\ db' = db
          /\ tasks'[k].pc \notin MutatingPcs]_vars

\* a dry-run call reported a path as deleted, and the record is still stored;
\* another reported a path as synced
C8_Witness ==
  /\ \E k \in Calls, p \in Paths :
       /\ tasks[k].dryRun /\ Done(k, "deleteFile")
       /\ tasks[k].paths = <<p>> /\ tasks[k].ret = "true"
       /\ ~IsNull(db[p])

\* C9: concurrent syncs of distinct paths.  When every call was a syncFiles of
\* one path, all paths differ, every file was on disk throughout and no request
\* failed in transport, every call returns its path in synced with no errors and
\* readFile of the path returns the file's content.
C9_ConcurrentIndependent ==
  (/\ \A k \in Calls :
        /\ Done(k, "syncFiles") /\ ~tasks[k].dryRun /\ ~tasks[k].delete
        /\ Len(tasks[k].paths) = 1
        /\ disk[tasks[k].paths[1]].kind = "file"
   /\ \A k1 \in Calls, k2 \in Calls : k1 # k2 => tasks[k1].paths # tasks[k2].paths
   /\ outages = 0
   /\ diskOps = 0)
  => \A k \in Calls :
       /\ tasks[k].result.synced = tasks[k].paths
       /\ tasks[k].result.errors = <<>>
       /\ readFile(db, tasks[k].paths[1]) = ContentOf(disk[tasks[k].paths[1]].content)

\* C10: debounce.  For every allow-listed path, every burst of events (each
\* less than the debounce interval after the one before) gets exactly one
\* dispatch: the bursts so far are the dispatches made plus at most one armed
\* timeout, the armed timeout is due a debounce interval after the last event
\* and is never overdue, and every dispatch was made exactly a debounce
\* interval after the last event of its burst.
C10_DebounceOneDispatch ==
  watcher # NotWatching =>
    \A p \in WatchPaths :
      extname(p) \in watcher.config.extensions =>
        LET sent == {n \in 1..Len(dispatched) : dispatched[n].path = p}
            armed == {tm \in timers : tm.path = p}
        IN /\ Cardinality(armed) <= 1
           /\ journal[p].bursts = Cardinality(sent) + Cardinality(armed)
           /\ \A tm \in armed :
                /\ tm.due = journal[p].last + watcher.config.debounce
                /\ clock <= tm.due
                /\ pendingChanges[p] = tm
           /\ \A n \in sent :
                dispatched[n].at = dispatched[n].last + watcher.config.debounce

\* a burst of two events a tick apart on a.md was dispatched once, and a
\* second burst on the same path is waiting for its quiet interval
C10_Witness ==
  /\ Len(dispatched) = 1
  /\ dispatched[1].path = "a.md"
  /\ dispatched[1].events = 2
  /\ dispatched[1].last = dispatched[1].since + 1
  /\ journal["a.md"].bursts = 2
  /\ pendingChanges["a.md"] # NoTimeout

\* the action the spec gives an event type
ActionFor(ev) == IF ev = "unlink" THEN "delete" ELSE "sync"
Dispatching == Len(dispatched') = Len(dispatched) + 1

\* C11: the last event type wins.  For every allow-listed path at most one
\* timeout is armed and its action is the one of the last event (delete for
\* unlink, sync for add and change); every dispatch is the action of the last
\* event delivered for its path, so the action of a superseded event is never
\* dispatched.
C11_LastEventWins ==
  [][/\ \A tm \in timers' :
          /\ tm.action = ActionFor(journal'[tm.path].kind)
          /\ pendingChanges'[tm.path] = tm
     /\ Dispatching =>
          LET sent == dispatched'[Len(dispatched')]
          IN sent.action = ActionFor(journal[sent.path].kind)]_vars

\* a change superseded by an unlink was dispatched as one delete, and an unlink
\* superseded by an add or change as one sync
C11_Witness ==
  /\ Len(dispatched) = 2
  /\ \E n \in 1..2 :
       /\ dispatched[n].superseding /\ dispatched[n].events = 2
       /\ dispatched[n].action = "delete"
  /\ \E n \in 1..2 :
       /\ dispatched[n].superseding /\ dispatched[n].events = 2
       /\ dispatched[n].action = "sync"

\* the dispatched calls at work on path p
InFlight(p) == {k \in Calls : Running(k) /\ filePath(tasks[k]) = p}

\* C12: while a dispatch for a path is in flight no second dispatch for the
\* same path is started: at most one dispatched call per path is in flight.
C12_OneInFlightPerPath ==
  watcher # NotWatching => \A p \in Paths : Cardinality(InFlight(p)) <= 1

\* C13: the close of the watcher is signalled as complete, and the driver
\* exits, only after every dispatch that was in flight has finished: when the
\* process has exited no dispatched call is left unfinished.
C13_ExitAfterInFlight ==
  watcher.kind = "exited" => \A k \in Calls : ~Running(k)

NotFound == [kind |-> "null"]

\* C14: the delete branch of syncFiles.  For a path found absent on disk with
\* delete requested: when the get finds no record, the step changes nothing in
\* the database and lists the path neither in deleted nor in errors; when it
\* finds one, the call goes on to delete it with the revision found.  A delete
\* whose revision is the current one removes the record, appends the path to
\* deleted, and readFile of the path returns not-found.
C14_DeleteBranch ==
  [][\A k \in Calls :
       LET t == tasks[k]
           p == filePath(t)
       IN /\ (At(k, "syncFiles", "delete_get") /\ Stepped(k) /\ outages' = outages) =>
               /\ t.seen[t.i] = "absent" /\ t.delete
               /\ db' = db
               /\ IF IsNull(db[p])
                  THEN /\ tasks'[k].result.deleted = t.result.deleted
                       /\ \A n \in 1..Len(NewErrors(k)) : NewErrors(k)[n].path # p
                       /\ tasks'[k].i > t.i
                  ELSE /\ tasks'[k].pc = "delete_delete"
                       /\ tasks'[k].i = t.i
                       /\ tasks'[k].locals.existingMeta.rev = db[p].rev
          /\ (/\ At(k, "syncFiles", "delete_delete") /\ Stepped(k) /\ outages' = outages
              /\ StoreAccepts(db, p, t.locals.existingMeta.rev)) =>
               /\ ~IsNull(db[p]) /\ IsNull(db'[p])
               /\ readFile(db', p) = NotFound
               /\ tasks'[k].result.deleted = Append(t.result.deleted, p)
               /\ \A n \in 1..Len(NewErrors(k)) : NewErrors(k)[n].path # p]_vars

\* one call with delete requested found both paths absent: it deleted the
\* record of a.md, and b.md, which has no record, is in neither list
C14_Witness ==
  \E k \in Calls :
    /\ Done(k, "syncFiles") /\ tasks[k].delete /\ ~tasks[k].dryRun
    /\ tasks[k].paths = <<"a.md", "b.md">>
    /\ tasks[k].seen = <<"absent", "absent">>
    /\ tasks[k].result = [synced |-> <<>>, deleted |-> <<"a.md">>, errors |-> <<>>]
    /\ IsNull(db["a.md"]) /\ db["a.md"].rev > 0
    /\ db["b.md"] = Missing(0)
    /\ readFile(db, "a.md") = NotFound

Range(seq) == {seq[n] : n \in 1..Len(seq)}

\* C15: a path absent from disk, delete not requested.  A syncFiles call
\* without delete never makes a request for a path it found absent (it is never
\* at the requests of the delete branch), and lists such a path in none of
\* synced, deleted and errors.
C15_AbsentNoDelete ==
  \A k \in Calls :
    (tasks[k].op = "syncFiles" /\ ~tasks[k].delete) =>
      LET t == tasks[k]
      IN /\ t.pc \notin {"delete_get", "delete_delete"}
         /\ Running(k) => t.seen[t.i] # "absent"
         /\ \A j \in 1..Len(t.seen) :
              t.seen[j] = "absent" =>
                t.paths[j] \notin Range(t.result.synced) \cup Range(t.result.deleted)
                                     \cup Range(ErrorPaths(t))

\* a call without delete found a.md absent while its record is stored: the
\* result is empty and the record is still there
C15_Witness ==
  \E k \in Calls :
    /\ Done(k, "syncFiles") /\ ~tasks[k].delete /\ ~tasks[k].dryRun
    /\ tasks[k].paths = <<"a.md">>
    /\ tasks[k].seen = <<"absent">>
    /\ tasks[k].result = EmptyResult
    /\ ~IsNull(db["a.md"])

\* the chunks stored with payload c
ChunksOf(c) == {id \in ChunkIds : ~IsNull(db[id]) /\ db[id].data = c}

\* C16: content-addressed chunks.  Every stored chunk has the identifier
\* derived from its payload and has been written once, so each content has at
\* most one chunk; every stored record references exactly the chunk of its
\* content, so records of files with identical content reference the same one.
C16_ChunkDedup ==
  /\ \A id \in ChunkIds :
       ~IsNull(db[id]) => /\ id = "h:" \o sha256hex40(db[id].data)
                          /\ db[id].rev = 1
  /\ \A c \in Contents : Cardinality(ChunksOf(c)) <= 1
  /\ \A p \in Paths, q \in Paths :
       (/\ ~IsNull(db[p]) /\ ~IsNull(db[q])
        /\ readFile(db, p) = readFile(db, q))
       => /\ db[p].children = db[q].children
          /\ Len(db[p].children) = 1
          /\ ChunksOf(readFile(db, p).content) = {db[p].children[1]}

\* a.md and b.md, with the same content, are both synced: their records
\* reference the one chunk of that content
C16_Witness ==
  /\ \A k \in Calls : Done(k, "syncFiles") /\ Len(tasks[k].result.synced) = 1
  /\ tasks[1].result.synced # tasks[2].result.synced
  /\ ~IsNull(db["a.md"]) /\ ~IsNull(db["b.md"])
  /\ db["a.md"].children = <<chunkId(<<26085>>)>>
  /\ db["b.md"].children = <<chunkId(<<26085>>)>>
  /\ ChunksOf(<<26085>>) = {chunkId(<<26085>>)}

\* C17: chunks are immutable.  No step changes or removes a stored chunk.
C17_ChunksImmutable ==
  [][\A id \in ChunkIds : ~IsNull(db[id]) => db'[id] = db[id]]_vars

\* the only record that referenced a chunk was deleted, and the chunk is
\* still stored
C17_Witness ==
  /\ \A p \in Paths : IsNull(db[p])
  /\ \E p \in Paths : db[p].rev > 0
  /\ \E id \in ChunkIds : ~IsNull(db[id]) /\ db[id].data = <<26085>>

\* C18: a readFile call returns null exactly when the path has no record (and
\* its request got through); when some chunk the record lists is not stored
\* it throws, and never returns a string; the string it returns is the data
\* of the listed chunks, all stored, concatenated in the order of the list;
\* and it throws "Missing chunk" only when a listed chunk is not stored.
Listed(p) == db[p].children
SomeChunkMissing(p) == \E n \in 1..Len(Listed(p)) : IsNull(db[Listed(p)[n]])
RECURSIVE InOrderUpTo(_, _)
InOrderUpTo(p, n) ==
  IF n = 0 THEN <<>> ELSE InOrderUpTo(p, n - 1) \o db[Listed(p)[n]].data
InOrder(p) == InOrderUpTo(p, Len(Listed(p)))

C18_ReadFile ==
  \A k \in Calls :
    Done(k, "readFile") =>
      LET t == tasks[k]
          p == filePath(t)
      IN /\ t.ret \in {"null", "content", "Missing chunk", "get failed"}
         /\ t.ret = "get failed" => outages > 0
         /\ IsNull(db[p]) => t.ret \in {"null", "get failed"}
         /\ t.ret = "null" => IsNull(db[p])
         /\ (~IsNull(db[p]) /\ SomeChunkMissing(p)) =>
              t.ret \in {"Missing chunk", "get failed"}
         /\ t.ret = "Missing chunk" => ~IsNull(db[p]) /\ SomeChunkMissing(p)
         /\ t.ret = "content" =>
              /\ ~IsNull(db[p])
              /\ ~SomeChunkMissing(p)
              /\ t.locals.content = InOrder(p)

C18_Witness ==
  /\ outages = 0
  /\ Done(1, "readFile") /\ tasks[1].ret = "content"
  /\ tasks[1].locals.content = <<104, 105, 26085>>
  /\ Done(2, "readFile") /\ tasks[2].ret = "Missing chunk"
  /\ Len(tasks[2].locals.chunks) = 1

\* C19: when the store rejects the put or the delete of a call for a stale
\* revision, what the call surfaces for the path (the error message syncFiles
\* records, the value deleteFile returns) differs from what it surfaces at the
\* same point when the request fails in transport, and from what it surfaces
\* when the document is not found.
TargetId(t) == IF t.pc = "write_put_leaf" THEN t.locals.leafId ELSE filePath(t)
TargetRev(t) == IF t.pc = "write_put_leaf" THEN NoRev ELSE SubmittedRev(t)
IsDelete(t) == t.pc \in {"delete_delete", "deleteFile_delete"}

\* the step of call k is a put or delete that reaches the store and is
\* rejected for its revision
StaleRejected(k) ==
  /\ tasks[k].pc \in MutatingPcs
  /\ Stepped(k)
  /\ outages' = outages
  /\ ~StoreAccepts(db, TargetId(tasks[k]), TargetRev(tasks[k]))
  /\ IsDelete(tasks[k]) => ~IsNull(db[TargetId(tasks[k])])

Surfaced(k) ==
  IF tasks[k].op = "syncFiles" THEN NewErrors(k)[1].error ELSE tasks'[k].ret

OtherFailures(k) ==
  LET t == tasks[k] IN
  IF t.op = "syncFiles"
  THEN {put(db, TargetId(t), [rev |-> TargetRev(t)], "unavailable").error,
        delete(db, TargetId(t), TargetRev(t), "unavailable").error,
        delete(EmptyDb, TargetId(t), TargetRev(t), "ok").error}
  ELSE {deleteFileCatch(t).ret, deleteFileGot(t, EmptyDb).ret}

C19_ConflictDistinguishable ==
  [][\A k \in Calls : StaleRejected(k) => Surfaced(k) \notin OtherFailures(k)]_vars

\* the step deletes the record of the path of call k
DeletesRecord(k) ==
  /\ ~IsNull(db[filePath(tasks'[k])])
  /\ IsNull(db'[filePath(tasks'[k])])

NotAllowed(cfg) == {p \in ExtPaths : extname(p) \notin cfg.extensions}

C21_NotAllowListedSkipped ==
  \A cfg \in Configs : \A p \in NotAllowed(cfg) :
    /\ IsNull(db[p])
    /\ \A k \in Calls :
         tasks[k].op = "syncFiles" =>
           /\ \A n \in 1..Len(tasks[k].result.synced) : tasks[k].result.synced[n] # p
           /\ \A n \in 1..Len(tasks[k].result.errors) : tasks[k].result.errors[n].path # p

\* C22: an event on a path whose extension is not in config.extensions leaves
\* the set of armed timeouts and the pendingChanges map as they are, and no
\* armed timeout and no dispatch is ever for such a path.
C22_FilteredEvents ==
  [][/\ \A p \in WatchPaths :
          (/\ watcher.kind = "watching"
           /\ extname(p) \notin watcher.config.extensions
           /\ \E ev \in FsEvents : FsEvent(p, ev))
          => timers' = timers /\ pendingChanges' = pendingChanges /\ tasks' = tasks
     /\ \A tm \in timers' : extname(tm.path) \in watcher.config.extensions
     /\ \A n \in 1..Len(dispatched') :
          extname(dispatched'[n].path) \in watcher.config.extensions]_vars

\* there were events on c.png and on a.md: the only armed timeout is the one
\* of a.md, c.png has no pending change, and nothing was dispatched
C22_Witness ==
  /\ watcher.kind = "watching"
  /\ journal["c.png"].events > 0
  /\ journal["a.md"].events > 0 /\ journal["a.md"].last < clock
  /\ timers = {pendingChanges["a.md"]}
  /\ pendingChanges["c.png"] = NoTimeout
  /\ dispatched = <<>>

\* a dispatched call has returned after one of its operations threw
Failed(k) == tasks[k].pc = "done" /\ tasks[k].faulted # {}

\* C23: once a dispatched sync or delete has failed, the watcher still runs:
\* only close (and the exit after it) changes the watcher; an event on an
\* allow-listed path still arms the timeout of its handler, a debounce
\* interval ahead; an expired timeout can still fire while the process runs,
\* and when it fires it starts its dispatch.
C23_FailureKeepsWatching ==
  [][(\E k \in Calls : Failed(k)) =>
       /\ watcher' # watcher => Close \/ Exit
       /\ \A p \in Paths, ev \in FsEvents :
            FsEvent(p, ev) =>
              /\ pendingChanges'[p] =
                   Timeout(p, ActionFor(ev), clock + watcher.config.debounce)
              /\ pendingChanges'[p] \in timers'
       /\ \A tm \in Expired :
            /\ Alive => ENABLED TimerFire(tm)
            /\ TimerFire(tm) =>
                 /\ Len(dispatched') = Len(dispatched) + 1
                 /\ \E k \in Calls :
                      /\ tasks[k].op = "idle"
                      /\ tasks'[k].op = IF tm.action = "sync" THEN "syncFiles"
                                        ELSE "deleteFile"
                      /\ tasks'[k].paths = <<tm.path>>]_vars

\* the first dispatch failed and returned; an event that came after that
\* dispatch had started (events wait for the expired timeouts to fire) was
\* debounced and dispatched, and its sync succeeded; the watcher is still
\* watching
C23_Witness ==
  /\ watcher.kind = "watching"
  /\ Len(dispatched) = 2
  /\ Failed(1)
  /\ dispatched[2].since >= dispatched[1].at
  /\ dispatched[2].at = dispatched[2].last + watcher.config.debounce
  /\ Done(2, "syncFiles") /\ tasks[2].result.synced = <<dispatched[2].path>>

\* the paths passed to syncFiles with / without delete by syncGitChanges
PassedTo(del) ==
  UNION {Range(tasks[k].paths) : k \in {j \in Calls : tasks[j].op = "syncFiles"
                                                     /\ tasks[j].delete = del}}
\* the path a line reports as changed: the path, the new path of a rename or copy
ChangedPath(line) == line[Len(line)]

\* C24: once syncGitChanges has read the diff, every allow-listed path that a
\* line reports is passed to syncFiles, with delete when the status is D and
\* without delete otherwise (added, modified, renamed, copied); and no path
\* outside the allow-list is passed at all.
C24_GitDispatch ==
  (tasks[1].op # "idle" /\ env.ok) =>
    /\ \A n \in 1..Len(env.lines) :
         LET line == env.lines[n]
         IN extname(ChangedPath(line)) \in env.config.extensions =>
              IF line[1] = "D" THEN ChangedPath(line) \in PassedTo(TRUE)
              ELSE ChangedPath(line) \in PassedTo(FALSE)
    /\ \A p \in PassedTo(TRUE) \cup PassedTo(FALSE) :
         extname(p) \in env.config.extensions

\* the files syncAll has to pass on: allow-listed extension, no administrative
\* directory among the directories above them
Administrative == {".git", ".obsidian", "node_modules"}
Eligible ==
  {q \in env.tree :
     /\ extname(q[Len(q)]) \in env.config.extensions
     /\ \A n \in 1..(Len(q) - 1) : q[n] \notin Administrative}

\* C25: the paths syncAll passes to syncFiles are the eligible files of the
\* tree, each once, and nothing else.
C25_SyncAllPaths ==
  tasks[1].op = "syncFiles" =>
    /\ Range(tasks[1].paths) = {relative(q) : q \in Eligible}
    /\ Len(tasks[1].paths) = Cardinality(Eligible)
    /\ ~tasks[1].delete

\* a markdown file under notes and one under notes/node_modules: the sync of
\* the first alone has returned
C25_Witness ==
  /\ env.tree = {<<"notes", "a.md">>, <<"notes", "node_modules", "a.md">>}
  /\ Done(1, "syncFiles")
  /\ tasks[1].result.synced = <<"notes/a.md">>
  /\ IsNull(db["notes/node_modules/a.md"])

\* a required value is missing from every source (or is empty where it is set)
Effective(var, key, default) == IF var.set THEN var.value
                                ELSE IF key.set THEN key.value ELSE default
MissingRequired ==
  \/ Effective(env.envUser, env.file.couchdbUser, "") = ""
  \/ Effective(env.envPassword, env.file.couchdbPassword, "") = ""
  \/ (IF env.command = "watch" /\ env.dir.set THEN env.dir.value
      ELSE Effective(env.envVaultRoot, env.file.vaultRoot, cwd)) = ""

\* C26: when a required value (user, password, vault root) is missing, the
\* command does nothing but exit with code 1: no call is started, no request
\* is made, the database and the timers stay as they were, and no watcher is
\* started.
C26_InvalidConfigAborts ==
  MissingRequired =>
    /\ \A k \in Calls : tasks[k] = IdleFrame
    /\ db = EmptyDb /\ outages = 0
    /\ timers = {} /\ dispatched = <<>>
    /\ watcher \in {NotWatching, ExitedWith(1)}

\* the watch command, with the password given and the user missing, has exited
C26_Witness ==
  /\ env.command = "watch"
  /\ env.envPassword.set /\ ~env.envUser.set /\ ~env.file.couchdbUser.set
  /\ watcher = ExitedWith(1)

\* C27: the configuration the watcher is started with takes every field from
\* the first source that provides it: for the credentials the environment
\* variable, then the config file; for extensions and debounce the option
\* given on the command line, then the config file, then the built-in default.
C27_ConfigPrecedence ==
  watcher.kind = "watching" =>
    /\ watcher.config.couchdbUser = Effective(env.envUser, env.file.couchdbUser, "")
    /\ watcher.config.couchdbPassword =
         Effective(env.envPassword, env.file.couchdbPassword, "")
    /\ watcher.config.extensions =
         (IF env.optExtensions.set THEN splitTrim(env.optExtensions.value)
          ELSE IF env.file.extensions.set THEN env.file.extensions.value
          ELSE {".md"})
    /\ watcher.config.debounce =
         (IF env.optDebounce.set THEN parseInt(env.optDebounce.value).value
          ELSE IF env.file.debounce.set THEN env.file.debounce.value
          ELSE DebounceTicks)
    /\ watcher.config.dryRun = env.dryRun

\* C28: modifiedAt is non-decreasing.  With the syncFiles calls made one after
\* the other, no step lowers the mtime of a FileRecord: the mtime after a later
\* successful sync is at least the one after the earlier.
C28_ModifiedAtMonotone ==
  [][\A p \in Paths :
       (~IsNull(db[p]) /\ ~IsNull(db'[p])) => db'[p].mtime >= db[p].mtime]_vars

\* the bytes of a string in UTF-8: one per code point, and one more for each
\* code point from U+0080, from U+0800 and from U+10000 on
CountFrom(content, low) == Cardinality({n \in 1..Len(content) : content[n] >= low})
Utf8Bytes(content) ==
  Len(content) + CountFrom(content, 128) + CountFrom(content, 2048)
  + CountFrom(content, 65536)

\* C29: at the step at which the sync of a path succeeds, the size of its
\* FileRecord is the UTF-8 byte length of the content the sync read; and the
\* size of every stored FileRecord is the byte length of what readFile returns
\* for it.
C29_SizeIsByteLength ==
  [][/\ \A k \in Calls :
          (/\ At(k, "syncFiles", "write_put_meta")
           /\ tasks'[k].result.synced = Append(tasks[k].result.synced, filePath(tasks[k])))
          => db'[filePath(tasks[k])].size = Utf8Bytes(tasks[k].locals.content)
     /\ \A p \in Paths :
          readFile(db', p).kind = "content"
          => db'[p].size = Utf8Bytes(readFile(db', p).content)]_vars

\* the five 3-byte characters are stored with size 15, the empty file with 0
C29_Witness ==
  /\ readFile(db, "a.md") = ContentOf(<<12371, 12435, 12395, 12385, 12399>>)
  /\ db["a.md"].size = 15
  /\ readFile(db, "b.md") = ContentOf(<<>>)
  /\ db["b.md"].size = 0

ChunkPcs == {"write_get_leaf", "write_put_leaf"}

\* C31: within the sync of one path the record is fetched after the chunk has
\* been checked and created: once a call has fetched the record of a path, its
\* next request for that path is the write of the record, never a request for
\* the chunk.
C31_RecordFetchedAfterChunk ==
  [][\A k \in Calls :
       (/\ At(k, "syncFiles", "write_get_meta")
        /\ tasks'[k].i = tasks[k].i
        /\ Stepped(k))
       => tasks'[k].pc \notin ChunkPcs]_vars

\* the watcher is at rest: no timeout is armed and no dispatched call is at work
AtRest == timers = {} /\ \A k \in Calls : ~Running(k)
\* the store mirrors the vault for p
Mirrors(p) ==
  IF existsSync(disk, p) THEN readFile(db, p) = ContentOf(disk[p].content)
  ELSE IsNull(db[p])

\* C32: in watch mode, when the events on a path have stopped and everything
\* they started has run to its end, with no request having failed to reach the
\* store, the store mirrors the vault for that path: its record reads back as
\* the file's content if the file exists, and there is no record if it does not.
C32_EventuallyMirrors ==
  \A p \in Paths :
    (journal[p].events > 0 /\ AtRest /\ outages = 0) => Mirrors(p)

\* C33: outside dry-run, a step of a syncFiles call adds a path to synced only
\* when it is the accepted write of the path's record, and then the record
\* lists exactly the chunk id of the content the call read and that chunk is
\* stored with the content as its data; a step adds a path to deleted only when
\* it is the accepted deletion of the path's record.
C33_ReportedAfterStored ==
  [][\A k \in Calls :
       (tasks'[k].op = "syncFiles" /\ ~tasks'[k].dryRun)
       => /\ tasks'[k].result.synced # tasks[k].result.synced
             => LET p == filePath(tasks[k])
                    content == tasks[k].locals.content
                IN /\ At(k, "syncFiles", "write_put_meta")
                   /\ tasks'[k].result.synced = Append(tasks[k].result.synced, p)
                   /\ StoreAccepts(db, p, SubmittedRev(tasks[k]))
                   /\ db'[p].rev = db[p].rev + 1
                   /\ db'[p].type = "plain"
                   /\ db'[p].children = <<chunkId(content)>>
                   /\ db'[chunkId(content)].type = "leaf"
                   /\ db'[chunkId(content)].data = content
          /\ tasks'[k].result.deleted # tasks[k].result.deleted
             => LET p == filePath(tasks[k])
                IN /\ At(k, "syncFiles", "delete_delete")
                   /\ tasks'[k].result.deleted = Append(tasks[k].result.deleted, p)
                   /\ ~IsNull(db[p])
                   /\ db'[p] = Missing(db[p].rev + 1)]_vars

\* one call has replaced the record of b.md by one of its new content, and
\* another has deleted the record of a.md, which is not on disk
C33_Witness ==
  /\ Done(1, "syncFiles") /\ ~tasks[1].dryRun
  /\ tasks[1].result = [synced |-> <<"b.md">>, deleted |-> <<>>, errors |-> <<>>]
  /\ db["b.md"].rev = 2 /\ db["b.md"].children = <<chunkId(<<26085>>)>>
  /\ Done(2, "syncFiles") /\ ~tasks[2].dryRun
  /\ tasks[2].result = [synced |-> <<>>, deleted |-> <<"a.md">>, errors |-> <<>>]
  /\ db["a.md"] = Missing(2)

WritePcs == {"write_get_meta", "write_get_leaf", "write_put_leaf", "write_put_meta"}
\* the step of call k fails the sync of its path
Fails(k) == tasks[k].i \in tasks'[k].faulted
\* no record lists the chunk id
Unreferenced(store, id) ==
  \A q \in Paths : ~IsNull(store[q]) => id \notin Range(store[q].children)

ArmedFor(p) == {tm \in timers : tm.path = p}

\* C35: at every moment at most one timeout is armed per path, and the
\* watcher's pending map has an entry for a path exactly when a timeout for
\* that path is armed and has not fired: the entry is that timeout.
C35_OneTimerPerPath ==
  \A p \in WatchPaths :
    /\ Cardinality(ArmedFor(p)) <= 1
    /\ pendingChanges[p] # NoTimeout <=> ArmedFor(p) # {}
    /\ pendingChanges[p] # NoTimeout => ArmedFor(p) = {pendingChanges[p]}

\* a second event on a.md has re-armed its timeout, and the timeout of b.md
\* has fired and left the map
C35_Witness ==
  /\ journal["a.md"].events = 2 /\ journal["a.md"].last > journal["a.md"].since
  /\ ArmedFor("a.md") = {pendingChanges["a.md"]}
  /\ pendingChanges["a.md"].due = journal["a.md"].last + DebounceTicks
  /\ \E n \in 1..Len(dispatched) : dispatched[n].path = "b.md"
  /\ pendingChanges["b.md"] = NoTimeout /\ ArmedFor("b.md") = {}

\* C36: once the watcher has been closed nothing is dispatched any more: no
\* step taken after the close starts a syncFiles or deleteFile call, so a
\* timeout armed before the close starts no store operation after it.
C36_NoDispatchAfterClose ==
  [][watcher.kind \in {"closing", "exited"}
     => /\ dispatched' = dispatched
        /\ \A k \in Calls : tasks[k].op = "idle" => tasks'[k].op = "idle"]_vars

\* the number of occurrences of p in seq
Count(seq, p) == Cardinality({n \in 1..Len(seq) : seq[n] = p})

\* C37: in the result of a syncFiles call, at any moment and when it returns,
\* every path in synced, deleted or errors is one of the paths passed, and a
\* path is reported, in the three lists together, at most as often as it
\* occurs among the paths the loop has gone through.
C37_ResultListsPartition ==
  \A k \in Calls :
    tasks[k].op = "syncFiles"
    => LET t == tasks[k]
           through == SubSeq(t.paths, 1, t.i - 1)
       IN /\ Range(t.result.synced) \cup Range(t.result.deleted) \cup Range(ErrorPaths(t))
               \subseteq Range(t.paths)
          /\ \A p \in Paths :
               Count(t.result.synced, p) + Count(t.result.deleted, p)
                 + Count(ErrorPaths(t), p) <= Count(through, p)

\* one call has deleted the record of a.md and failed on b.md, the other has
\* synced b.md
C37_Witness ==
  \E k, j \in Calls :
    /\ Done(k, "syncFiles") /\ ~tasks[k].dryRun /\ tasks[k].paths = <<"a.md", "b.md">>
    /\ tasks[k].result.synced = <<>>
    /\ tasks[k].result.deleted = <<"a.md">>
    /\ ErrorPaths(tasks[k]) = <<"b.md">>
    /\ Done(j, "syncFiles") /\ ~tasks[j].dryRun
    /\ tasks[j].result = [synced |-> <<"b.md">>, deleted |-> <<>>, errors |-> <<>>]

\* the record of p was written once, from the file as it still is
SyncedOnce(p) == diskOps = 0 /\ ~IsNull(db[p]) /\ db[p].rev = 1

\* C38: a second sync of a path whose file has not changed since the first
\* writes the same record again: no step of it creates or changes a chunk, and
\* its accepted write leaves ctime, mtime, size, children and path of the
\* record as they are and advances only the revision.
C38_ResyncSameRecord ==
  [][\A k \in Calls :
       (/\ tasks[k].op = "syncFiles" /\ tasks[k].pc \in WritePcs /\ Stepped(k)
        /\ SyncedOnce(filePath(tasks[k])))
       => LET p == filePath(tasks[k])
          IN /\ \A id \in ChunkIds : db'[id] = db[id]
             /\ \A q \in Paths \ {p} : db'[q] = db[q]
             /\ db'[p] = IF p \in Range(tasks'[k].result.synced)
                         THEN [db[p] EXCEPT !.rev = 2] ELSE db[p]]_vars

\* a.md was synced by one call and, unchanged, by the next
C38_Witness ==
  /\ diskOps = 0 /\ disk["a.md"].kind = "file"
  /\ Done(1, "syncFiles") /\ "a.md" \in Range(tasks[1].result.synced) /\ ~tasks[1].dryRun
  /\ Done(2, "syncFiles") /\ "a.md" \in Range(tasks[2].result.synced) /\ ~tasks[2].dryRun
  /\ db["a.md"].rev = 2
  /\ db["a.md"].ctime = disk["a.md"].ctimeMs /\ db["a.md"].mtime = disk["a.md"].mtimeMs
  /\ db[db["a.md"].children[1]].rev = 1

\* C39: a dry-run syncFiles call returns the synced and deleted lists the real
\* call returns: when a dry-run call is followed by the real call with the
\* same paths and the same delete option, the vault has not changed and no
\* request has failed, the two results list the same paths as synced and the
\* same paths as deleted.
C39_DryRunPredicts ==
  (/\ Done(1, "syncFiles") /\ tasks[1].dryRun
   /\ Done(2, "syncFiles") /\ ~tasks[2].dryRun
   /\ tasks[2].paths = tasks[1].paths /\ tasks[2].delete = tasks[1].delete
   /\ diskOps = 0 /\ outages = 0)
  => /\ tasks[2].result.synced = tasks[1].result.synced
     /\ tasks[2].result.deleted = tasks[1].result.deleted

\* C40: when execSync throws, syncGitChanges makes no syncFiles call and no
\* request to the store, whatever git had printed, and the result it returns
\* has empty synced, deleted and errors lists; the store is as it was.
C40_NoDiffNoSync ==
  (env.kind = "git" /\ ~env.ok)
  => /\ \A k \in Calls : /\ tasks[k].pc \in {"idle", "pending", "done"}
                         /\ tasks[k].op \in {"idle", "none"} \/ tasks[k].pc = "pending"
                         /\ tasks[k].result = EmptyResult
     /\ db = SyncedDb /\ outages = 0
     /\ (tasks[1].pc = "done" /\ tasks[2].pc = "done")
        => gitResult(tasks[1], tasks[2]) = EmptyResult

\* execSync threw after git had printed that a.md, which is on disk, was
\* modified and b.md deleted; syncGitChanges has returned
C40_Witness ==
  /\ env.kind = "git" /\ ~env.ok /\ ~env.config.dryRun
  /\ env.lines = <<<<"M", "a.md">>, <<"D", "b.md">>>>
  /\ disk["a.md"].kind = "file" /\ disk["b.md"].kind = "absent"
  /\ tasks[1] = NotMade /\ tasks[2] = NotMade

====
